---- MODULE Spec2Model ----
(***************************************************************************)
(* PHOLD benchmark (pdbj/sst-phold): the Phold component (src/src/Phold.cc) *)
(* on a partitioned conservative scheduler, and the binary-tree index      *)
(* arithmetic (src/src/binary-tree.h) used by the init/complete            *)
(* collectives.                                                            *)
(*                                                                         *)
(* Times are SimTime_t values in units of TIMEBASE.  The component is      *)
(* modelled as built by default (PHOLD_DEBUG = 0, PHOLD_FIXED = 0 in       *)
(* src/src/Makefile): ASSERT and VERBOSE expand to nothing.                *)
(***************************************************************************)
EXTENDS Integers, Sequences, FiniteSets, TLC

(***************************************************************************)
(* Bounds of the model.                                                    *)
(***************************************************************************)
MaxN == 3          \* m_number ranges over 2..MaxN
MaxParts == 2      \* number of partitions ranges over 1..MaxParts
MaxStop == 3       \* m_stop ranges over 1..MaxStop
MaxLoad == 4       \* the runs explored have m_number * m_events <= MaxLoad
MaxWork == 8       \* and m_number * m_events * m_stop <= MaxWork
MaxMin == 1        \* m_minimum (the lookahead) ranges over 1..MaxMin
MaxDelay == 1      \* the exponential draw, truncated to SimTime_t: 0..MaxDelay
MaxEvents == 2     \* m_events ranges over 1..MaxEvents
MaxDraws == 2      \* destination draws one SendEvent may consume
RemScale == 2      \* the coin and m_remote are multiples of 1/RemScale
MaxTreeN == 6      \* in the collectives m_number ranges over 2..MaxTreeN
MaxTotal == 2      \* and the counters of all LPs add up to at most MaxTotal
RngMod == 4        \* the generator has RngMod states: draws are k / RngMod
max_depth == 5     \* BinaryTree::max_depth, the bits of std::size_t, scaled
MaxBytes == 2      \* the payload of a PholdEvent has 0..MaxBytes bytes
MaxByte == 1       \* each of them a value in 0..MaxByte
MaxBase == 1       \* the fields of SST::Event, as one value in 0..MaxBase
MaxAverage == 4    \* ShowConfiguration: m_average ranges over 1..MaxAverage,
MaxEchoMin == 3    \* m_minimum over 1..MaxEchoMin
MaxEchoEvents == 12 \* and m_events over 1..MaxEchoEvents
MaxReps == 3       \* destination draws of one SendEvent that are recorded
MaxFairLoad == 2   \* m_number * m_events in the runs with fairness
MaxFairWork == 6   \* m_number * m_events * m_stop in the runs with fairness

VARIABLES
  m_number,     \* Phold::m_number: number of LPs
  m_remote,     \* Phold::m_remote, in units of 1/RemScale
  m_minimum,    \* Phold::m_minimum
  m_stop,       \* Phold::m_stop
  m_events,     \* Phold::m_events
  nparts,       \* number of partitions the LPs are split into
  m_sendCount,  \* per LP: m_sendCount->getCount()
  m_recvCount,  \* per LP: m_recvCount->getCount()
  m_delays,     \* per LP: number of samples added to the delay histogram
  doNotEnd,     \* per LP: TRUE while the LP holds its do-not-end token
  setupDone,    \* per LP: setup() has returned
  queue,        \* per partition: the pending events, each with its sequence
  chan,         \* per ordered pair of partitions: events sent, not yet exchanged
  nextSeq,      \* per partition: the next enqueue sequence number
  lvt,          \* per partition: local virtual time
  pub,          \* per partition: the LVT last published at the barrier
  pstate,       \* per partition: Init, Running, Blocked, Draining, Terminated
  \* history variables (read by the properties, never by the program)
  nSendEvent,   \* per LP: number of SendEvent calls
  nLinkSend,    \* per LP: number of m_links[..]->send calls
  heap,         \* history: the PholdEvent objects created and deleted
  nHandled,     \* per LP: number of handleEvent calls
  nLate,        \* per LP: number of handleEvent calls that saw now >= m_stop
  nLive,        \* per LP: number of events sent that arrive before m_stop
  lastDisp,     \* per partition: <<arrival, seq>> of the latest dispatch
  causality,    \* TRUE once an event met a partition with arrival < LVT
  \* the untimed collectives
  stage,        \* init, run, complete or finish
  phase,        \* the phase the host is calling init() or complete() with
  called,       \* the LPs already called in this phase
  untimed,      \* per link <<from, to>>: the untimed events sent on it
  nSent,        \* number of untimed events sent in this phase
  ub,           \* TRUE once a handler has dereferenced a NULL event
  initGot,      \* history, per LP: the Init events it took from its links
  initSent,     \* history, per LP: the Init events it sent
  totals,       \* history: the grand totals LP 0 has printed
  nUnexpected,  \* history: events found by the EARLY, OTHER and LATE checks
  completeSent, \* history, per LP: the Complete events it sent
  ourPhase,     \* history, per LP: the 'our phase' branches taken
  \* the random number generators
  gen,          \* the generator: its next state, for each state
  rngState,     \* per LP: the state of m_rng
  \* the tree index arithmetic called on its own
  btCall,       \* the latest call of a BinaryTree function and its result
  \* the event classes on their own
  wire,         \* the latest event serialized, its stream, the event read back
  echo,         \* what ShowConfiguration() has printed
  \* SendEvent draw by draw
  sendStep      \* the position in SendEvent, its locals, the draws so far

vars == <<m_number, m_remote, m_minimum, m_stop, m_events, nparts,
          m_sendCount, m_recvCount, m_delays, doNotEnd, setupDone,
          queue, chan, nextSeq, lvt, pub, pstate,
          nSendEvent, nLinkSend, heap, nLive, nHandled, nLate,
          lastDisp, causality,
          stage, phase, called, untimed, nSent, ub, initGot, initSent, totals,
          nUnexpected, completeSent, ourPhase,
          gen, rngState, btCall, wire, echo, sendStep>>

rngVars == <<gen, rngState>>

treeVars == <<stage, phase, called, untimed, nSent, ub, initGot, initSent,
              totals, nUnexpected, completeSent, ourPhase>>

cfgVars == <<m_number, m_remote, m_minimum, m_stop, m_events, nparts>>

\* the state of the component and of the scheduler
pholdVars == <<cfgVars, m_sendCount, m_recvCount, m_delays, doNotEnd,
               setupDone, queue, chan, nextSeq, lvt, pub, pstate,
               nSendEvent, nLinkSend, heap, nLive, nHandled, nLate, lastDisp,
               causality, treeVars, rngVars>>

\* std::size_t arithmetic is modulo 2^max_depth
IndexMod == 2 ^ max_depth

\* the values of std::size_t
Index == 0 .. (IndexMod - 1)

\* before any call
NoCall == [fn |-> "none", arg |-> 0, res |-> <<>>, oob |-> FALSE]

\* the variables of the parts that are run on their own
sideVars == <<wire, echo, sendStep>>

\* nothing serialized yet
NoWire == [step |-> "none", e |-> [cls |-> "none"], stream |-> <<>>,
           d |-> [cls |-> "none"], left |-> 0]

\* nothing printed yet
NoEcho == [shown |-> FALSE, average |-> 0, minimum |-> 0, events |-> 0,
           warn |-> FALSE, min_events |-> 0]

\* outside SendEvent
NoStep == [pc |-> "idle", id |-> 0, from |-> 0, rem |-> 0, nextId |-> 0,
           local |-> FALSE, reps |-> 0, odd |-> FALSE, delay |-> 0,
           log |-> <<>>]

SideInit == wire = NoWire /\ echo = NoEcho /\ sendStep = NoStep

LPs == 0 .. (m_number - 1)
Parts == 0 .. (nparts - 1)

\* LPs are split into partitions round-robin by id
PartOf(id) == id % nparts

Max(a, b) == IF a >= b THEN a ELSE b

\* no PholdEvent object yet
NoHeap == [sentTo |-> [id \in LPs |-> 0], alive |-> 0, peak |-> 0]

(***************************************************************************)
(* Links.  A cross-LP link carries the latency m_minimum ("For remotes     *)
(* m_minimum is added by the link"); the self link carries none ("Self     *)
(* links don't have a min latency configured").                            *)
(***************************************************************************)
\* mutant: the cross-LP links are configured without latency
LinkLatencyNone(src, dst) == 0

LinkLatency(src, dst) == IF src = dst THEN 0 ELSE m_minimum

\* The world a handler acts on: the parts of the state a send can change.
World == [queue |-> queue, chan |-> chan, nextSeq |-> nextSeq,
          sendCount |-> m_sendCount, delays |-> m_delays,
          nSendEvent |-> nSendEvent,
          nLinkSend |-> nLinkSend, nLive |-> nLive, heap |-> heap,
          causality |-> causality]

\* Enqueue into partition q's pending queue: the sequence is assigned here
Enqueue(w, q, ev) ==
  [w EXCEPT !.queue[q] = @ \cup {[src |-> ev.src, dst |-> ev.dst,
                                  sendTime |-> ev.sendTime,
                                  arrival |-> ev.arrival,
                                  net |-> ev.net, local |-> ev.local,
                                  seq |-> w.nextSeq[q]]},
            !.nextSeq[q] = @ + 1,
            !.causality = @ \/ (ev.arrival < lvt[q])]

\* m_links[dst]->send(delay, event) called by LP src at time now.  An event
\* carries its send time; net and local are history: the arrival time the
\* sender computed (nextEventTime) and the branch it took.
LinkSend(w, src, dst, now, delay, event) ==
  LET arrival == now + LinkLatency(src, dst) + delay
      ev == [src |-> src, dst |-> dst, sendTime |-> event.sendTime,
             arrival |-> arrival, net |-> event.net, local |-> event.local]
      p == PartOf(src)
      q == PartOf(dst)
      w1 == [w EXCEPT !.nLinkSend[src] = @ + 1,
                      !.heap.sentTo[dst] = @ + 1,
                      !.nLive[src] = IF arrival < m_stop THEN @ + 1 ELSE @]
  IN  IF p = q THEN Enqueue(w1, q, ev)
      ELSE [w1 EXCEPT !.chan[<<p, q>>] = Append(@, ev)]

(***************************************************************************)
(* Phold::SendEvent (Phold.cc:474-572).  The inputs of one call are the    *)
(* values it draws: the coin rem, the destination draws of the             *)
(* reject-and-redraw loop, and the delay.                                  *)
(***************************************************************************)
\* rem < m_remote (Phold.cc:490)
IsRemote(rem) == rem < m_remote

\* do { nextId = draw; ++reps; } while (nextId == getId());  from draw k on.
\* done is FALSE when the draws given run out before the loop ends.
RECURSIVE DrawLoop(_, _, _)
DrawLoop(id, draws, k) ==
  IF k > Len(draws) THEN [done |-> FALSE, nextId |-> id, reps |-> k - 1]
  ELSE IF draws[k] # id THEN [done |-> TRUE, nextId |-> draws[k], reps |-> k]
  ELSE DrawLoop(id, draws, k + 1)

\* mutant: the first destination draw is taken, the sender's own id included
NextIdNoRedraw(id, rem, draws) == IF IsRemote(rem) THEN draws[1] ELSE id

\* The destination: drawn among the other LPs when remote, else the sender
NextId(id, rem, draws) ==
  IF IsRemote(rem) THEN DrawLoop(id, draws, 1).nextId ELSE id

\* mutant: the self path forgets to add m_minimum
SendDelayNoMin(local, delay) == delay

\* The delay handed to the link: the self link has no latency, so the total
\* delay is used (Phold.cc:526-543)
SendDelay(local, delay) == IF local THEN delay + m_minimum ELSE delay

\* mutant: a send arriving exactly at stop is recorded
RecordSendInclusive(nextEventTime) == nextEventTime <= m_stop

\* "Record only sends which will be *received* before stop time" (Phold.cc:555)
RecordSend(nextEventTime) == nextEventTime < m_stop

DrawSeqs == UNION {[1 .. k -> LPs] : k \in 1 .. MaxDraws}

\* The draws one SendEvent call of LP id consumes, no more and no fewer
Inputs(id) ==
  {in \in [rem : 0 .. (RemScale - 1), draws : DrawSeqs \cup {<<>>},
           delay : 0 .. MaxDelay] :
     IF IsRemote(in.rem)
     THEN /\ in.draws # <<>>
          /\ DrawLoop(id, in.draws, 1).done
          /\ DrawLoop(id, in.draws, 1).reps = Len(in.draws)
     ELSE in.draws = <<>>}

\* auto event = new PholdEvent(getCurrentSimTime());  (Phold.cc:547)
NewEvent(w) ==
  [w EXCEPT !.heap.alive = @ + 1,
            !.heap.peak = Max(@, w.heap.alive + 1)]

SendEvent(w, id, now, in) ==
  LET local == ~IsRemote(in.rem)
      nextId == NextId(id, in.rem, in.draws)
      delay == in.delay
      delayTotal == delay + m_minimum
      nextEventTime == delayTotal + now
      event == [sendTime |-> now, net |-> nextEventTime, local |-> local]
      w0 == NewEvent(w)
      w1 == LinkSend(w0, id, nextId, now, SendDelay(local, delay), event)
      w2 == [w1 EXCEPT !.nSendEvent[id] = @ + 1]
  IN  IF RecordSend(nextEventTime)
      THEN [w2 EXCEPT !.sendCount[id] = @ + 1, !.delays[id] = @ + 1]
      ELSE w2

\* The state after a handler that changed the world w
Commit(w) ==
  /\ queue' = w.queue
  /\ chan' = w.chan
  /\ nextSeq' = w.nextSeq
  /\ m_sendCount' = w.sendCount
  /\ m_delays' = w.delays
  /\ nSendEvent' = w.nSendEvent
  /\ nLinkSend' = w.nLinkSend
  /\ heap' = w.heap
  /\ nLive' = w.nLive
  /\ causality' = w.causality

(***************************************************************************)
(* Phold::setup (Phold.cc:759-790): m_events calls of SendEvent at time 0. *)
(***************************************************************************)
RECURSIVE SetupLoop(_, _, _, _)
SetupLoop(w, id, ins, i) ==
  IF i > Len(ins) THEN w
  ELSE SetupLoop(SendEvent(w, id, 0, ins[i]), id, ins, i + 1)

setup(id) ==
  /\ \A p \in Parts : pstate[p] = "Init"
  /\ ~setupDone[id]
  /\ \A j \in LPs : j < id => setupDone[j]
  /\ \E ins \in [1 .. m_events -> Inputs(id)] :
       Commit(SetupLoop(World, id, ins, 1))
  /\ setupDone' = [setupDone EXCEPT ![id] = TRUE]
  /\ UNCHANGED <<cfgVars, m_recvCount, doNotEnd, lvt, pub, pstate,
                 nHandled, nLate, lastDisp>>
  /\ UNCHANGED treeVars
  /\ UNCHANGED rngVars
  /\ UNCHANGED btCall
  /\ UNCHANGED sideVars

(***************************************************************************)
(* Phold::handleEvent (Phold.cc:575-608), run by the scheduler at the      *)
(* event's arrival time (getCurrentSimTime() in the handler).              *)
(***************************************************************************)
\* mutant: the handler still treats now = stop as before stop
BeforeStopInclusive(now) == now <= m_stop

\* now < m_stop (Phold.cc:589 and 595)
BeforeStop(now) == now < m_stop

\* mutant: one release ends the hold of every LP (a process-wide flag)
OKToEndSimAll(tokens, id) == [j \in DOMAIN tokens |-> FALSE]

\* primaryComponentOKToEndSim() (Phold.cc:605): the caller's own token
OKToEndSim(tokens, id) == [tokens EXCEPT ![id] = FALSE]

\* the handler's effect on the LP's own fields and on the history
handleCommon(id, ev, now) ==
  /\ nHandled' = [nHandled EXCEPT ![id] = @ + 1]
  /\ nLate' = [nLate EXCEPT ![id] = IF now >= m_stop THEN @ + 1 ELSE @]

\* delete event;  (Phold.cc:583)
DeleteEvent(w) == [w EXCEPT !.heap.alive = @ - 1]

\* mutant: the handler keeps the event until it has sent the successor
SendThenDelete(w, id, now, in) == DeleteEvent(SendEvent(w, id, now, in))

\* delete event; ... SendEvent();  (Phold.cc:583-596)
DeleteThenSend(w, id, now, in) == SendEvent(DeleteEvent(w), id, now, in)

handleEvent(id, ev, now, w) ==
  /\ handleCommon(id, ev, now)
  /\ IF BeforeStop(now)
     THEN /\ m_recvCount' = [m_recvCount EXCEPT ![id] = @ + 1]
          /\ \E in \in Inputs(id) : Commit(DeleteThenSend(w, id, now, in))
          /\ doNotEnd' = doNotEnd
     ELSE /\ m_recvCount' = m_recvCount
          /\ Commit(DeleteEvent(w))
          /\ doNotEnd' = OKToEndSim(doNotEnd, id)

(***************************************************************************)
(* The conservative scheduler (spec 4.6 and 5).                            *)
(***************************************************************************)
\* mutant: ties are broken by the latest sequence first
BeforeLifo(a, b) ==
  \/ a.arrival < b.arrival
  \/ a.arrival = b.arrival /\ a.seq > b.seq

\* (arrival ASC, sequence ASC)
Before(a, b) ==
  \/ a.arrival < b.arrival
  \/ a.arrival = b.arrival /\ a.seq < b.seq

QHead(p) == CHOOSE e \in queue[p] : \A f \in queue[p] : f = e \/ Before(e, f)

\* arrival <= lbts(p), lbts(p) = min over peers q of (lvt(q) + minimum), the
\* LVT of a peer being the one it published at the barrier
WithinLbts(p, t) == \A q \in Parts \ {p} : t <= pub[q] + m_minimum

\* every LP has released its token
AuthComplete == \A id \in LPs : ~doNotEnd[id]

CanDispatch(p) ==
  /\ queue[p] # {}
  /\ WithinLbts(p, QHead(p).arrival)
  /\ ~(AuthComplete /\ QHead(p).arrival >= m_stop)

\* Init -> Running after setup()
Start(p) ==
  /\ pstate[p] = "Init"
  /\ \A id \in LPs : setupDone[id]
  /\ pstate' = [pstate EXCEPT ![p] = "Running"]
  /\ UNCHANGED <<cfgVars, m_sendCount, m_recvCount, m_delays, doNotEnd, setupDone,
                 queue, chan, nextSeq, lvt, pub,
                 nSendEvent, nLinkSend, heap, nLive, nHandled, nLate,
                 lastDisp, causality>>
  /\ UNCHANGED treeVars
  /\ UNCHANGED rngVars
  /\ UNCHANGED btCall
  /\ UNCHANGED sideVars

\* pop the head and dispatch it to the handler of its destination LP
Dispatch(p) ==
  /\ pstate[p] = "Running"
  /\ CanDispatch(p)
  /\ LET h == QHead(p)
         w == [World EXCEPT !.queue[p] = @ \ {h},
                            !.causality = @ \/ (h.arrival < lvt[p])]
     IN  /\ lvt' = [lvt EXCEPT ![p] = Max(@, h.arrival)]
         /\ lastDisp' = [lastDisp EXCEPT ![p] = <<h.arrival, h.seq>>]
         /\ handleEvent(h.dst, h, h.arrival, w)
  /\ UNCHANGED <<cfgVars, setupDone, pub, pstate>>
  /\ UNCHANGED treeVars
  /\ UNCHANGED rngVars
  /\ UNCHANGED btCall
  /\ UNCHANGED sideVars

\* Running -> Blocked when the head exceeds lbts (or nothing is pending)
Block(p) ==
  /\ pstate[p] = "Running"
  /\ ~AuthComplete
  /\ ~CanDispatch(p)
  /\ pstate' = [pstate EXCEPT ![p] = "Blocked"]
  /\ UNCHANGED <<cfgVars, m_sendCount, m_recvCount, m_delays, doNotEnd, setupDone,
                 queue, chan, nextSeq, lvt, pub,
                 nSendEvent, nLinkSend, heap, nLive, nHandled, nLate,
                 lastDisp, causality>>
  /\ UNCHANGED treeVars
  /\ UNCHANGED rngVars
  /\ UNCHANGED btCall
  /\ UNCHANGED sideVars

RECURSIVE EnqueueAll(_, _, _, _)
EnqueueAll(w, q, msgs, i) ==
  IF i > Len(msgs) THEN w
  ELSE EnqueueAll(Enqueue(w, q, msgs[i]), q, msgs, i + 1)

\* hand partition p's outbound channels to the queues of their receivers
RECURSIVE Exchange(_, _, _)
Exchange(w, p, qs) ==
  IF qs = {} THEN w
  ELSE LET q == CHOOSE x \in qs : TRUE
           w1 == EnqueueAll(w, q, chan[<<p, q>>], 1)
       IN  Exchange([w1 EXCEPT !.chan[<<p, q>>] = <<>>], p, qs \ {q})

\* Blocked -> Running on barrier advance: publish the LVT; the events sent
\* up to it reach the peers' queues
Barrier(p) ==
  /\ pstate[p] = "Blocked"
  /\ pub' = [pub EXCEPT ![p] = lvt[p]]
  /\ pstate' = [pstate EXCEPT ![p] = "Running"]
  /\ Commit(Exchange(World, p, Parts \ {p}))
  /\ UNCHANGED <<cfgVars, m_recvCount, doNotEnd, setupDone, lvt,
                 nHandled, nLate, lastDisp>>
  /\ UNCHANGED treeVars
  /\ UNCHANGED rngVars
  /\ UNCHANGED btCall
  /\ UNCHANGED sideVars

\* mutant: a partition starts draining before the authorization is complete
DrainAnytime(p) ==
  /\ pstate[p] = "Running"
  /\ pstate' = [pstate EXCEPT ![p] = "Draining"]
  /\ UNCHANGED <<cfgVars, m_sendCount, m_recvCount, m_delays, doNotEnd, setupDone,
                 queue, chan, nextSeq, lvt, pub,
                 nSendEvent, nLinkSend, heap, nLive, nHandled, nLate,
                 lastDisp, causality>>
  /\ UNCHANGED treeVars
  /\ UNCHANGED rngVars
  /\ UNCHANGED btCall
  /\ UNCHANGED sideVars

\* Running -> Draining when authorization is complete
Drain(p) ==
  /\ pstate[p] = "Running"
  /\ AuthComplete
  /\ pstate' = [pstate EXCEPT ![p] = "Draining"]
  /\ UNCHANGED <<cfgVars, m_sendCount, m_recvCount, m_delays, doNotEnd, setupDone,
                 queue, chan, nextSeq, lvt, pub,
                 nSendEvent, nLinkSend, heap, nLive, nHandled, nLate,
                 lastDisp, causality>>
  /\ UNCHANGED treeVars
  /\ UNCHANGED rngVars
  /\ UNCHANGED btCall
  /\ UNCHANGED sideVars

\* Draining -> Terminated when the queue is empty or its head >= stop
Terminate(p) ==
  /\ pstate[p] = "Draining"
  /\ IF queue[p] = {} THEN TRUE ELSE QHead(p).arrival >= m_stop
  /\ pstate' = [pstate EXCEPT ![p] = "Terminated"]
  /\ UNCHANGED <<cfgVars, m_sendCount, m_recvCount, m_delays, doNotEnd, setupDone,
                 queue, chan, nextSeq, lvt, pub,
                 nSendEvent, nLinkSend, heap, nLive, nHandled, nLate,
                 lastDisp, causality>>
  /\ UNCHANGED treeVars
  /\ UNCHANGED rngVars
  /\ UNCHANGED btCall
  /\ UNCHANGED sideVars

(***************************************************************************)
(* The run: construction (Phold.cc:98-264), setup, the scheduler loop.     *)
(***************************************************************************)
Init ==
  /\ m_number \in 2 .. MaxN
  /\ m_remote \in 0 .. RemScale
  /\ m_minimum \in 1 .. MaxMin
  /\ m_stop \in 1 .. MaxStop
  /\ m_events \in 1 .. MaxEvents
  /\ m_number * m_events <= MaxLoad
  /\ m_number * m_events * m_stop <= MaxWork
  /\ nparts \in 1 .. MaxParts
  /\ m_sendCount = [id \in LPs |-> 0]
  /\ m_recvCount = [id \in LPs |-> 0]
  /\ m_delays = [id \in LPs |-> 0]
  /\ doNotEnd = [id \in LPs |-> TRUE]
  /\ setupDone = [id \in LPs |-> FALSE]
  /\ queue = [p \in Parts |-> {}]
  /\ chan = [pq \in Parts \X Parts |-> <<>>]
  /\ nextSeq = [p \in Parts |-> 0]
  /\ lvt = [p \in Parts |-> 0]
  /\ pub = [p \in Parts |-> 0]
  /\ pstate = [p \in Parts |-> "Init"]
  /\ nSendEvent = [id \in LPs |-> 0]
  /\ nLinkSend = [id \in LPs |-> 0]
  /\ heap = NoHeap
  /\ nHandled = [id \in LPs |-> 0]
  /\ nLate = [id \in LPs |-> 0]
  /\ nLive = [id \in LPs |-> 0]
  /\ lastDisp = [p \in Parts |-> <<0, -1>>]
  /\ causality = FALSE
  /\ stage = "run"
  /\ phase = 0
  /\ called = {}
  /\ untimed = [l \in LPs \X LPs |-> <<>>]
  /\ nSent = 0
  /\ ub = FALSE
  /\ initGot = [id \in LPs |-> <<>>]
  /\ initSent = [id \in LPs |-> {}]
  /\ totals = <<>>
  /\ nUnexpected = 0
  /\ completeSent = [id \in LPs |-> <<>>]
  /\ ourPhase = [id \in LPs |-> [init |-> 0, complete |-> 0]]
  /\ gen = <<>>
  /\ rngState = [id \in LPs |-> 0]
  /\ btCall = NoCall
  /\ SideInit

Next ==
  \/ \E id \in LPs : setup(id)
  \/ \E p \in Parts : Start(p)
  \/ \E p \in Parts : Dispatch(p)
  \/ \E p \in Parts : Block(p)
  \/ \E p \in Parts : Barrier(p)
  \/ \E p \in Parts : Drain(p)
  \/ \E p \in Parts : Terminate(p)

Spec == Init /\ [][Next]_vars

(***************************************************************************)
(* BinaryTree (binary-tree.h:46-128): indices of a binary tree stored      *)
(* level by level.                                                         *)
(***************************************************************************)
\* the memo table of capacity(): cap[0] = 0, cap[d] = cap[d - 1] + s with s
\* doubling from 1 (no entry of the table wraps)
RECURSIVE cap_memo(_)
cap_memo(d) == IF d = 0 THEN 0 ELSE cap_memo(d - 1) + 2 ^ (d - 1)

\* mutant: the memo table read without the shift for the 0-based depth
capacityNoShift(depth) == cap_memo(depth)

capacity(depth) == cap_memo(depth + 1)

\* while (capacity(depth++) <= index); return --depth;  from depth d on
RECURSIVE depthFrom(_, _)
depthFrom(index, d) ==
  IF capacity(d) <= index THEN depthFrom(index, d + 1) ELSE d

depth(index) == depthFrom(index, 0)

\* mutant: the parent computed without stepping back to the 0-based index
parentNoShift(childIdx) == childIdx \div 2

\* (childIdx - 1) / 2 in std::size_t; the component calls it for
\* childIdx >= 1 only
parent(childIdx) == ((childIdx - 1) % IndexMod) \div 2

children(parentIdx) ==
  LET child1 == (2 * parentIdx + 1) % IndexMod
  IN  <<child1, (child1 + 1) % IndexMod>>

\* if (depth == 0) return 0; return capacity(depth - 1);
begin(d) == IF d = 0 THEN 0 ELSE capacity(d - 1)

end(d) == capacity(d)

\* The entries of memo_t, std::array<std::size_t, max_depth + 1>
MemoDomain == 0 .. max_depth

\* capacity(depth) reads cap_memo[depth + 1]: outside the array or not
capacityOob(d) == (d + 1) \notin MemoDomain

\* depth(index) calls capacity(0), ..., capacity(depth(index))
depthOob(index) == \E d \in 0 .. depth(index) : capacityOob(d)

beginOob(d) == d > 0 /\ capacityOob(d - 1)

endOob(d) == capacityOob(d)

(***************************************************************************)
(* The untimed collectives: Phold::init and Phold::complete                *)
(* (Phold.cc:634-756, 793-898).  A handler acts on the record t: the links *)
(* (u), the number of events sent in this phase, the NULL-dereference flag *)
(* and the history.                                                        *)
(***************************************************************************)
NULL == [kind |-> "NULL"]

Tree == [u |-> untimed, sent |-> nSent, ub |-> ub, got |-> initGot,
         out |-> initSent, totals |-> totals, unexp |-> nUnexpected,
         csent |-> completeSent, our |-> ourPhase]

\* m_links[to]->sendUntimedData(event) by LP from: the event can be received
\* from the next phase on
sendUntimedData(t, from, to, event) ==
  [t EXCEPT !.u[<<from, to>>] =
              Append(@, [kind |-> event.kind, senderId |-> event.senderId,
                         sendCount |-> event.sendCount,
                         recvCount |-> event.recvCount, due |-> phase + 1]),
            !.sent = @ + 1]

\* m_links[from]->recvUntimedData() at LP id: the event at the head of the
\* link if it was sent in an earlier phase, else NULL
recvUntimedData(t, id, from) ==
  LET q == t.u[<<from, id>>]
  IN  IF q # <<>> /\ q[1].due <= phase
      THEN [t |-> [t EXCEPT !.u[<<from, id>>] = Tail(q)], event |-> q[1]]
      ELSE [t |-> t, event |-> NULL]

\* getEvent<E>(from): the event received, cast to E (NULL if of another
\* class).  An Init event taken from a link enters the history of the LP.
getEvent(t, id, from, E) ==
  LET r == recvUntimedData(t, id, from)
      t1 == IF r.event.kind = "Init"
            THEN [r.t EXCEPT !.got[id] =
                    Append(@, [phase |-> phase, from |-> from,
                               senderId |-> r.event.senderId,
                               sentIn |-> r.event.due - 1])]
            ELSE r.t
  IN  [t |-> t1, event |-> IF r.event.kind = E THEN r.event ELSE NULL]

\* checkForEvents<E>: one getEvent on every link, from link k on; without
\* ASSERT an event found is deleted (with ASSERT it is fatal: counted)
RECURSIVE checkForEvents(_, _, _, _)
checkForEvents(t, id, E, k) ==
  IF k >= m_number THEN t
  ELSE LET r == getEvent(t, id, k, E)
       IN  checkForEvents(IF r.event = NULL THEN r.t
                          ELSE [r.t EXCEPT !.unexp = @ + 1], id, E, k + 1)

sendToChild(t, id, child) ==
  IF child < m_number
  THEN LET t1 == sendUntimedData(t, id, child,
                   [kind |-> "Init", senderId |-> id,
                    sendCount |-> 0, recvCount |-> 0])
       IN  [t1 EXCEPT !.out[id] = @ \cup {[phase |-> phase, to |-> child]}]
  ELSE t

\* init(phase), phase == depth(getId()).  event->getSenderId() on a NULL
\* event is undefined: the handler goes on (cont) or is cut short.
initOurPhase(t, id, cont) ==
  LET r == IF 0 # id THEN getEvent(t, id, parent(id), "Init")
           ELSE [t |-> t, event |-> [kind |-> "Init"]]
      kids == children(id)
      t1 == sendToChild(r.t, id, kids[1])
      t2 == sendToChild(t1, id, kids[2])
      t3 == checkForEvents(t2, id, "Init", 0)
  IN  IF r.event = NULL
      THEN IF cont THEN [t3 EXCEPT !.ub = TRUE] ELSE [r.t EXCEPT !.ub = TRUE]
      ELSE t3

CommitTree(t) ==
  /\ untimed' = t.u
  /\ nSent' = t.sent
  /\ ub' = t.ub
  /\ initGot' = t.got
  /\ initSent' = t.out
  /\ totals' = t.totals
  /\ nUnexpected' = t.unexp
  /\ completeSent' = t.csent
  /\ ourPhase' = t.our

runVars == <<m_remote, m_minimum, m_stop, m_events, nparts, m_delays,
             doNotEnd, setupDone, queue, chan, nextSeq, lvt, pub, pstate,
             nSendEvent, nLinkSend, heap, nLive, nHandled, nLate, lastDisp,
             causality>>

\* The host calls the LPs of one partition in the order of their ids; the
\* partitions run side by side
HostCalls(id) ==
  /\ id \in LPs \ called
  /\ \A j \in LPs : (j < id /\ PartOf(j) = PartOf(id)) => j \in called

init(id) ==
  /\ stage = "init"
  /\ HostCalls(id)
  /\ \E cont \in BOOLEAN :
       CommitTree(IF phase < depth(id)
                  THEN checkForEvents(Tree, id, "Init", 0)
                  ELSE IF phase = depth(id)
                  THEN initOurPhase([Tree EXCEPT !.our[id].init = @ + 1],
                                    id, cont)
                  ELSE checkForEvents(Tree, id, "Init", 0))
  /\ called' = called \cup {id}
  /\ UNCHANGED <<runVars, m_number, m_sendCount, m_recvCount, stage, phase>>
  /\ UNCHANGED rngVars
  /\ UNCHANGED btCall
  /\ UNCHANGED sideVars

\* mutant: the host runs another phase whether an event was sent or not
NextPhaseAlways(s) ==
  /\ stage = s
  /\ called = LPs
  /\ phase' = phase + 1
  /\ called' = {}
  /\ nSent' = 0
  /\ UNCHANGED <<runVars, m_number, m_sendCount, m_recvCount, stage, untimed,
                 ub, initGot, initSent, totals, nUnexpected, completeSent,
                 ourPhase>>
  /\ UNCHANGED rngVars
  /\ UNCHANGED btCall
  /\ UNCHANGED sideVars

\* "Called repeatedly until no more events sent": the host's phase loop
NextPhase(s) ==
  /\ stage = s
  /\ called = LPs
  /\ nSent > 0
  /\ phase' = phase + 1
  /\ called' = {}
  /\ nSent' = 0
  /\ UNCHANGED <<runVars, m_number, m_sendCount, m_recvCount, stage, untimed,
                 ub, initGot, initSent, totals, nUnexpected, completeSent,
                 ourPhase>>
  /\ UNCHANGED rngVars
  /\ UNCHANGED btCall
  /\ UNCHANGED sideVars

LastPhase(s, next) ==
  /\ stage = s
  /\ called = LPs
  /\ nSent = 0
  /\ stage' = next
  /\ phase' = 0
  /\ called' = {}
  /\ UNCHANGED <<runVars, m_number, m_sendCount, m_recvCount, untimed, nSent,
                 ub, initGot, initSent, totals, nUnexpected, completeSent,
                 ourPhase>>
  /\ UNCHANGED rngVars
  /\ UNCHANGED btCall
  /\ UNCHANGED sideVars

initNextPhase == NextPhase("init")
initDone == LastPhase("init", "run")
completeNextPhase == NextPhase("complete")
completeDone == LastPhase("complete", "finish")

\* The run between the collectives, by its effect on the counters read by
\* complete(): m_sendCount->addData(1) and m_recvCount->addData(1)
RECURSIVE SumOver(_, _)
SumOver(f, S) ==
  IF S = {} THEN 0
  ELSE LET x == CHOOSE y \in S : TRUE IN f[x] + SumOver(f, S \ {x})

addSend(id) ==
  /\ stage = "run"
  /\ SumOver(m_sendCount, LPs) + SumOver(m_recvCount, LPs) < MaxTotal
  /\ m_sendCount' = [m_sendCount EXCEPT ![id] = @ + 1]
  /\ UNCHANGED <<runVars, m_number, m_recvCount, treeVars>>
  /\ UNCHANGED rngVars
  /\ UNCHANGED btCall
  /\ UNCHANGED sideVars

addRecv(id) ==
  /\ stage = "run"
  /\ SumOver(m_sendCount, LPs) + SumOver(m_recvCount, LPs) < MaxTotal
  /\ m_recvCount' = [m_recvCount EXCEPT ![id] = @ + 1]
  /\ UNCHANGED <<runVars, m_number, m_sendCount, treeVars>>
  /\ UNCHANGED rngVars
  /\ UNCHANGED btCall
  /\ UNCHANGED sideVars

runDone ==
  /\ stage = "run"
  /\ stage' = "complete"
  /\ UNCHANGED <<runVars, m_number, m_sendCount, m_recvCount, phase, called,
                 untimed, nSent, ub, initGot, initSent, totals,
                 nUnexpected, completeSent, ourPhase>>
  /\ UNCHANGED rngVars
  /\ UNCHANGED btCall
  /\ UNCHANGED sideVars

\* getChildCounts(child): event->getSendCount() on a NULL event is
\* undefined: the counts read are whatever junk holds
getChildCounts(t, id, child, junk) ==
  IF child < m_number
  THEN LET r == getEvent(t, id, child, "Complete")
       IN  IF r.event = NULL
           THEN [t |-> [r.t EXCEPT !.ub = TRUE], counts |-> junk]
           ELSE [t |-> r.t,
                 counts |-> <<r.event.sendCount, r.event.recvCount>>]
  ELSE [t |-> t, counts |-> <<0, 0>>]

sendToParent(t, id, to, sendCount, recvCount) ==
  LET t1 == sendUntimedData(t, id, to,
              [kind |-> "Complete", senderId |-> id,
               sendCount |-> sendCount, recvCount |-> recvCount])
  IN  [t1 EXCEPT !.csent[id] =
         Append(@, [phase |-> phase, to |-> to, sendCount |-> sendCount,
                    recvCount |-> recvCount])]

\* mutant: the counts of the right child are left out of the sum
AccumulateLeftOnly(own, left, right) == own + left

\* "Accumulate the send counts" (Phold.cc:865-866)
Accumulate(own, left, right) == own + left + right

\* complete(phase), ephase == depth(getId())
completeOurPhase(t, id, junk) ==
  LET kids == children(id)
      left == getChildCounts(t, id, kids[1], junk)
      right == getChildCounts(left.t, id, kids[2], junk)
      sendCount == Accumulate(m_sendCount[id], left.counts[1], right.counts[1])
      recvCount == Accumulate(m_recvCount[id], left.counts[2], right.counts[2])
      t1 == IF 0 < id
            THEN sendToParent(right.t, id, parent(id), sendCount, recvCount)
            ELSE right.t
      \* OUTPUT0 prints on LP 0 only
      t2 == IF 0 = id
            THEN [t1 EXCEPT !.totals =
                    Append(@, [phase |-> phase, sendCount |-> sendCount,
                               recvCount |-> recvCount])]
            ELSE t1
  IN  checkForEvents(t2, id, "Complete", 0)

complete(id) ==
  /\ stage = "complete"
  /\ HostCalls(id)
  /\ LET maxDepth == depth(m_number - 1)
         ephase == (maxDepth - phase) % IndexMod
     IN  \E junk \in {<<0, 0>>, <<1, 1>>} :
           CommitTree(IF ephase > depth(id)
                      THEN checkForEvents(Tree, id, "Complete", 0)
                      ELSE IF ephase = depth(id)
                      THEN completeOurPhase(
                             [Tree EXCEPT !.our[id].complete = @ + 1],
                             id, junk)
                      ELSE checkForEvents(Tree, id, "Complete", 0))
  /\ called' = called \cup {id}
  /\ UNCHANGED <<runVars, m_number, m_sendCount, m_recvCount, stage, phase>>
  /\ UNCHANGED rngVars
  /\ UNCHANGED btCall
  /\ UNCHANGED sideVars

\* Construction, with the scheduler at rest: the collectives and the counters
InitTree ==
  /\ m_number \in 2 .. MaxTreeN
  /\ m_remote = 0
  /\ m_minimum = 1
  /\ m_stop = 1
  /\ m_events = 1
  /\ nparts \in 1 .. MaxParts
  /\ m_sendCount = [id \in LPs |-> 0]
  /\ m_recvCount = [id \in LPs |-> 0]
  /\ m_delays = [id \in LPs |-> 0]
  /\ doNotEnd = [id \in LPs |-> TRUE]
  /\ setupDone = [id \in LPs |-> FALSE]
  /\ queue = [p \in Parts |-> {}]
  /\ chan = [pq \in Parts \X Parts |-> <<>>]
  /\ nextSeq = [p \in Parts |-> 0]
  /\ lvt = [p \in Parts |-> 0]
  /\ pub = [p \in Parts |-> 0]
  /\ pstate = [p \in Parts |-> "Init"]
  /\ nSendEvent = [id \in LPs |-> 0]
  /\ nLinkSend = [id \in LPs |-> 0]
  /\ heap = NoHeap
  /\ nHandled = [id \in LPs |-> 0]
  /\ nLate = [id \in LPs |-> 0]
  /\ nLive = [id \in LPs |-> 0]
  /\ lastDisp = [p \in Parts |-> <<0, -1>>]
  /\ causality = FALSE
  /\ stage = "init"
  /\ phase = 0
  /\ called = {}
  /\ untimed = [l \in LPs \X LPs |-> <<>>]
  /\ nSent = 0
  /\ ub = FALSE
  /\ initGot = [id \in LPs |-> <<>>]
  /\ initSent = [id \in LPs |-> {}]
  /\ totals = <<>>
  /\ nUnexpected = 0
  /\ completeSent = [id \in LPs |-> <<>>]
  /\ ourPhase = [id \in LPs |-> [init |-> 0, complete |-> 0]]
  /\ gen = <<>>
  /\ rngState = [id \in LPs |-> 0]
  /\ btCall = NoCall
  /\ SideInit

NextTree ==
  \/ \E id \in LPs : init(id)
  \/ initNextPhase
  \/ initDone
  \/ \E id \in LPs : addSend(id)
  \/ \E id \in LPs : addRecv(id)
  \/ runDone
  \/ \E id \in LPs : complete(id)
  \/ completeNextPhase
  \/ completeDone

SpecTree == InitTree /\ [][NextTree]_vars

(***************************************************************************)
(* The random number generators (Phold.cc:164-178): every LP owns one      *)
(* generator m_rng, seeded with 1 + getId(), behind its three              *)
(* distributions.  The generator is a function from its state to the next  *)
(* state; a draw steps it and returns the new state as k / RngMod.         *)
(***************************************************************************)
Seed(id) == (1 + id) % RngMod

\* mutant: one generator shared by all the LPs (a static member)
RngShared(id) == 0

\* m_rng is an instance member: LP id draws from its own generator
RngOf(id) == id

\* m_remRng->nextUniform(), in units of 1 / RemScale
RemOf(raw) == (raw * RemScale) \div RngMod

\* m_nodeRng->getNextDouble(), uniform over [0, m_number), cast to an id
NodeOf(raw) == (raw * m_number) \div RngMod

\* m_delayRng->getNextDouble(), cast to SimTime_t
DelayOf(raw) == (raw * (MaxDelay + 1)) \div RngMod

\* the next k draws from state s
RECURSIVE RawDraws(_, _)
RawDraws(s, k) == IF k = 0 THEN <<>> ELSE <<gen[s]>> \o RawDraws(gen[s], k - 1)

\* The values one SendEvent of LP id draws with the generator in state s,
\* and the state it leaves; ok is FALSE when the redraw loop needs more than
\* MaxDraws draws
RngInput(id, s) ==
  LET r1 == gen[s]
      rem == RemOf(r1)
      raws == RawDraws(r1, MaxDraws)
      ids == [k \in 1 .. MaxDraws |-> NodeOf(raws[k])]
      loop == DrawLoop(id, ids, 1)
      reps == IF IsRemote(rem) THEN loop.reps ELSE 0
      s2 == IF reps = 0 THEN r1 ELSE raws[reps]
  IN  [in |-> [rem |-> rem, draws |-> SubSeq(ids, 1, reps),
               delay |-> DelayOf(gen[s2])],
       s |-> gen[s2],
       ok |-> ~IsRemote(rem) \/ loop.done]

\* SendEvent with the draws of the LP's generator; x is the world and the
\* generators
SendEventR(x, id, now) ==
  LET r == RngInput(id, x.rng[RngOf(id)])
  IN  [w |-> SendEvent(x.w, id, now, r.in),
       rng |-> [x.rng EXCEPT ![RngOf(id)] = r.s]]

RECURSIVE SetupLoopR(_, _, _)
SetupLoopR(x, id, i) ==
  IF i >= m_events THEN x
  ELSE SetupLoopR(SendEventR(x, id, 0), id, i + 1)

setupR(id) ==
  /\ \A p \in Parts : pstate[p] = "Init"
  /\ ~setupDone[id]
  /\ \A j \in LPs : j < id => setupDone[j]
  /\ LET x == SetupLoopR([w |-> World, rng |-> rngState], id, 0)
     IN  Commit(x.w) /\ rngState' = x.rng
  /\ setupDone' = [setupDone EXCEPT ![id] = TRUE]
  /\ UNCHANGED <<cfgVars, m_recvCount, doNotEnd, lvt, pub, pstate,
                 nHandled, nLate, lastDisp, treeVars, gen, btCall, sideVars>>

handleEventR(id, ev, now, w) ==
  /\ handleCommon(id, ev, now)
  /\ IF BeforeStop(now)
     THEN /\ m_recvCount' = [m_recvCount EXCEPT ![id] = @ + 1]
          /\ LET x == SendEventR([w |-> DeleteEvent(w), rng |-> rngState],
                                 id, now)
             IN  Commit(x.w) /\ rngState' = x.rng
          /\ doNotEnd' = doNotEnd
     ELSE /\ m_recvCount' = m_recvCount
          /\ Commit(DeleteEvent(w))
          /\ rngState' = rngState
          /\ doNotEnd' = OKToEndSim(doNotEnd, id)

DispatchR(p) ==
  /\ pstate[p] = "Running"
  /\ CanDispatch(p)
  /\ LET h == QHead(p)
         w == [World EXCEPT !.queue[p] = @ \ {h},
                            !.causality = @ \/ (h.arrival < lvt[p])]
     IN  /\ lvt' = [lvt EXCEPT ![p] = Max(@, h.arrival)]
         /\ lastDisp' = [lastDisp EXCEPT ![p] = <<h.arrival, h.seq>>]
         /\ handleEventR(h.dst, h, h.arrival, w)
  /\ UNCHANGED <<cfgVars, setupDone, pub, pstate, treeVars, gen, btCall, sideVars>>

\* every redraw loop ends within MaxDraws draws
GenOk == \A id \in LPs : \A s \in 0 .. (RngMod - 1) : RngInput(id, s).ok

\* Construction with a generator: any function of RngMod states
InitReplay ==
  /\ m_number \in 2 .. MaxN
  /\ m_remote \in 0 .. RemScale
  /\ m_minimum \in 1 .. MaxMin
  /\ m_stop \in 1 .. MaxStop
  /\ m_events \in 1 .. MaxEvents
  /\ m_number * m_events <= MaxLoad
  /\ m_number * m_events * m_stop <= MaxWork
  /\ nparts \in 1 .. MaxParts
  /\ m_sendCount = [id \in LPs |-> 0]
  /\ m_recvCount = [id \in LPs |-> 0]
  /\ m_delays = [id \in LPs |-> 0]
  /\ doNotEnd = [id \in LPs |-> TRUE]
  /\ setupDone = [id \in LPs |-> FALSE]
  /\ queue = [p \in Parts |-> {}]
  /\ chan = [pq \in Parts \X Parts |-> <<>>]
  /\ nextSeq = [p \in Parts |-> 0]
  /\ lvt = [p \in Parts |-> 0]
  /\ pub = [p \in Parts |-> 0]
  /\ pstate = [p \in Parts |-> "Init"]
  /\ nSendEvent = [id \in LPs |-> 0]
  /\ nLinkSend = [id \in LPs |-> 0]
  /\ heap = NoHeap
  /\ nHandled = [id \in LPs |-> 0]
  /\ nLate = [id \in LPs |-> 0]
  /\ nLive = [id \in LPs |-> 0]
  /\ lastDisp = [p \in Parts |-> <<0, -1>>]
  /\ causality = FALSE
  /\ stage = "run"
  /\ phase = 0
  /\ called = {}
  /\ untimed = [l \in LPs \X LPs |-> <<>>]
  /\ nSent = 0
  /\ ub = FALSE
  /\ initGot = [id \in LPs |-> <<>>]
  /\ initSent = [id \in LPs |-> {}]
  /\ totals = <<>>
  /\ nUnexpected = 0
  /\ completeSent = [id \in LPs |-> <<>>]
  /\ ourPhase = [id \in LPs |-> [init |-> 0, complete |-> 0]]
  /\ gen \in [0 .. (RngMod - 1) -> 0 .. (RngMod - 1)]
  /\ GenOk
  /\ rngState = [id \in LPs |-> Seed(id)]
  /\ btCall = NoCall
  /\ SideInit

NextReplay ==
  \/ \E id \in LPs : setupR(id)
  \/ \E p \in Parts : Start(p)
  \/ \E p \in Parts : DispatchR(p)
  \/ \E p \in Parts : Block(p)
  \/ \E p \in Parts : Barrier(p)
  \/ \E p \in Parts : Drain(p)
  \/ \E p \in Parts : Terminate(p)

SpecReplay == InitReplay /\ [][NextReplay]_vars

(***************************************************************************)
(* Construction from the parameters of the configuration script            *)
(* (Phold.cc:98-264), for every value the script can pass, then setup().   *)
(***************************************************************************)
\* The parameter sets: the documented ranges (Phold.h:133-167) and the values
\* next to them
ParamSets ==
  [number : 1 .. MaxN, events : 0 .. MaxEvents, minimum : 0 .. MaxMin,
   stop : 0 .. MaxStop, remote : (0 - 1) .. (RemScale + 1)]

\* Phold::Phold: params.find<T>(name, default) into the static members
\* (Phold.cc:116-123); nothing is compared with a range
Phold(params) ==
  [m_remote |-> params.remote, m_minimum |-> params.minimum,
   m_stop |-> params.stop, m_number |-> params.number,
   m_events |-> params.events]

InitConstruct ==
  /\ \E params \in ParamSets :
       /\ m_number = Phold(params).m_number
       /\ m_remote = Phold(params).m_remote
       /\ m_minimum = Phold(params).m_minimum
       /\ m_stop = Phold(params).m_stop
       /\ m_events = Phold(params).m_events
  /\ m_number * m_events <= MaxLoad
  /\ nparts \in 1 .. MaxParts
  /\ m_sendCount = [id \in LPs |-> 0]
  /\ m_recvCount = [id \in LPs |-> 0]
  /\ m_delays = [id \in LPs |-> 0]
  /\ doNotEnd = [id \in LPs |-> TRUE]
  /\ setupDone = [id \in LPs |-> FALSE]
  /\ queue = [p \in Parts |-> {}]
  /\ chan = [pq \in Parts \X Parts |-> <<>>]
  /\ nextSeq = [p \in Parts |-> 0]
  /\ lvt = [p \in Parts |-> 0]
  /\ pub = [p \in Parts |-> 0]
  /\ pstate = [p \in Parts |-> "Init"]
  /\ nSendEvent = [id \in LPs |-> 0]
  /\ nLinkSend = [id \in LPs |-> 0]
  /\ heap = NoHeap
  /\ nHandled = [id \in LPs |-> 0]
  /\ nLate = [id \in LPs |-> 0]
  /\ nLive = [id \in LPs |-> 0]
  /\ lastDisp = [p \in Parts |-> <<0, -1>>]
  /\ causality = FALSE
  /\ stage = "run"
  /\ phase = 0
  /\ called = {}
  /\ untimed = [l \in LPs \X LPs |-> <<>>]
  /\ nSent = 0
  /\ ub = FALSE
  /\ initGot = [id \in LPs |-> <<>>]
  /\ initSent = [id \in LPs |-> {}]
  /\ totals = <<>>
  /\ nUnexpected = 0
  /\ completeSent = [id \in LPs |-> <<>>]
  /\ ourPhase = [id \in LPs |-> [init |-> 0, complete |-> 0]]
  /\ gen = <<>>
  /\ rngState = [id \in LPs |-> 0]
  /\ btCall = NoCall
  /\ SideInit

NextConstruct ==
  \/ \E id \in LPs : setup(id)
  \/ \E p \in Parts : Start(p)

SpecConstruct == InitConstruct /\ [][NextConstruct]_vars

(***************************************************************************)
(* The functions of BinaryTree called on their own, as the binary-tree     *)
(* test does (binary-tree-test.cc:27-61), for every depth up to max_depth  *)
(* and every index of std::size_t.  A read outside the memo table is       *)
(* undefined: the call is marked and its result is any value.              *)
(***************************************************************************)
Returned(fn, arg, val, oob, junk) ==
  [fn |-> fn, arg |-> arg, res |-> IF oob THEN junk ELSE val, oob |-> oob]

callCapacity(d, junk) ==
  /\ btCall' = Returned("capacity", d, capacity(d), capacityOob(d), junk)
  /\ UNCHANGED pholdVars
  /\ UNCHANGED sideVars

callDepth(i, junk) ==
  /\ btCall' = Returned("depth", i, depth(i), depthOob(i), junk)
  /\ UNCHANGED pholdVars
  /\ UNCHANGED sideVars

callBegin(d, junk) ==
  /\ btCall' = Returned("begin", d, begin(d), beginOob(d), junk)
  /\ UNCHANGED pholdVars
  /\ UNCHANGED sideVars

callEnd(d, junk) ==
  /\ btCall' = Returned("end", d, end(d), endOob(d), junk)
  /\ UNCHANGED pholdVars
  /\ UNCHANGED sideVars

callParent(i) ==
  /\ btCall' = Returned("parent", i, parent(i), FALSE, 0)
  /\ UNCHANGED pholdVars
  /\ UNCHANGED sideVars

callChildren(i) ==
  /\ btCall' = Returned("children", i, children(i), FALSE, 0)
  /\ UNCHANGED pholdVars
  /\ UNCHANGED sideVars

\* depth(i) and depth(parent(i)), one after the other
callDepthParent(i, junk) ==
  /\ btCall' = Returned("depth, depth of parent", i,
                        <<depth(i), depth(parent(i))>>,
                        depthOob(i) \/ depthOob(parent(i)), junk)
  /\ UNCHANGED pholdVars
  /\ UNCHANGED sideVars

\* depth(i) and the depths of children(i).first and children(i).second
callDepthChildren(i, junk) ==
  /\ btCall' = Returned("depth, depths of children", i,
                        <<depth(i), depth(children(i)[1]),
                          depth(children(i)[2])>>,
                        \/ depthOob(i)
                        \/ depthOob(children(i)[1])
                        \/ depthOob(children(i)[2]), junk)
  /\ UNCHANGED pholdVars
  /\ UNCHANGED sideVars

InitBT ==
  /\ Init
  /\ m_number = 2
  /\ m_remote = 0
  /\ m_minimum = 1
  /\ m_stop = 1
  /\ m_events = 1
  /\ nparts = 1

NextBT ==
  \/ \E d \in MemoDomain, junk \in Index : callCapacity(d, junk)
  \/ \E i \in Index, junk \in Index : callDepth(i, junk)
  \/ \E d \in MemoDomain, junk \in Index : callBegin(d, junk)
  \/ \E d \in MemoDomain, junk \in Index : callEnd(d, junk)
  \/ \E i \in Index : callParent(i)
  \/ \E i \in Index : callChildren(i)
  \/ \E i \in Index \ {0}, junk \in {<<0, 0>>} : callDepthParent(i, junk)
  \/ \E i \in Index, junk \in {<<0, 0, 0>>} : callDepthChildren(i, junk)

SpecBT == InitBT /\ [][NextBT]_vars

(***************************************************************************)
(* The event classes (PholdEvent.h:27-225) and their serialization.  The   *)
(* serializer is the simulator's: one serialize_order() both packs an      *)
(* object into a stream and unpacks a default-constructed one from it.     *)
(***************************************************************************)
\* PholdEvent(sendTime, bytes): the buffer is allocated for bytes > 0 only
\* and its content is whatever the allocation holds
PholdEventNew(base, sendTime, bytes, content) ==
  [cls |-> "PholdEvent", base |-> base, m_sendTime |-> sendTime,
   m_bytes |-> bytes, m_buffer |-> IF bytes > 0 THEN content ELSE <<>>]

InitEventNew(base, id) ==
  [cls |-> "InitEvent", base |-> base, m_sender |-> id]

CompleteEventNew(base, sendCount, recvCount) ==
  [cls |-> "CompleteEvent", base |-> base, m_sendCount |-> sendCount,
   m_recvCount |-> recvCount]

\* the default constructors, "for serialization"
DefaultEvent(cls) ==
  IF cls = "PholdEvent" THEN PholdEventNew(0, 0, 0, <<>>)
  ELSE IF cls = "InitEvent" THEN InitEventNew(0, 0)
  ELSE CompleteEventNew(0, 0, 0)

\* ser & field
SerAmp(s, field) ==
  IF s.mode = "PACK"
  THEN [s EXCEPT !.stream = Append(@, s.obj[field])]
  ELSE [s EXCEPT !.obj[field] = s.stream[s.pos], !.pos = @ + 1]

\* ser.binary(buffer, size): the size, then size bytes
SerBinary(s, buffer, size) ==
  IF s.mode = "PACK"
  THEN [s EXCEPT !.stream = Append(@, s.obj[size]) \o s.obj[buffer]]
  ELSE LET n == s.stream[s.pos]
       IN  [s EXCEPT !.obj[size] = n,
                     !.obj[buffer] = SubSeq(s.stream, s.pos + 1, s.pos + n),
                     !.pos = @ + 1 + n]

\* Event::serialize_order
Event_serialize_order(s) == SerAmp(s, "base")

\* mutant: the send time is left out of the stream
PholdEvent_serialize_orderNoTime(s) ==
  SerBinary(Event_serialize_order(s), "m_buffer", "m_bytes")

PholdEvent_serialize_order(s) ==
  SerBinary(SerAmp(Event_serialize_order(s), "m_sendTime"),
            "m_buffer", "m_bytes")

InitEvent_serialize_order(s) == SerAmp(Event_serialize_order(s), "m_sender")

CompleteEvent_serialize_order(s) ==
  SerAmp(SerAmp(Event_serialize_order(s), "m_sendCount"), "m_recvCount")

\* the virtual call
serialize_order(s) ==
  IF s.obj.cls = "PholdEvent" THEN PholdEvent_serialize_order(s)
  ELSE IF s.obj.cls = "InitEvent" THEN InitEvent_serialize_order(s)
  ELSE CompleteEvent_serialize_order(s)

\* the class of the object, then its fields
encode(e) ==
  <<e.cls>> \o
  serialize_order([mode |-> "PACK", stream |-> <<>>, pos |-> 1, obj |-> e]).stream

\* an object of the class named first, default-constructed, then unpacked;
\* left is the number of items of the stream that were not read
decode(stream) ==
  LET s == serialize_order([mode |-> "UNPACK", stream |-> Tail(stream),
                            pos |-> 1, obj |-> DefaultEvent(stream[1])])
  IN  [e |-> s.obj, left |-> Len(stream) - s.pos]

Payloads == UNION {[1 .. n -> 0 .. MaxByte] : n \in 0 .. MaxBytes}

Events ==
  {PholdEventNew(b, t, Len(c), c) : b \in 0 .. MaxBase, t \in 0 .. MaxStop,
                                    c \in Payloads}
  \cup {InitEventNew(b, id) : b \in 0 .. MaxBase, id \in 0 .. (MaxTreeN - 1)}
  \cup {CompleteEventNew(b, sc, rc) : b \in 0 .. MaxBase, sc \in 0 .. MaxTotal,
                                      rc \in 0 .. MaxTotal}

\* the sending rank packs the event
serializeEvent(e) ==
  /\ wire' = [step |-> "packed", e |-> e, stream |-> encode(e),
              d |-> [cls |-> "none"], left |-> 0]
  /\ UNCHANGED <<pholdVars, btCall, echo, sendStep>>

\* the receiving rank unpacks it
deserializeEvent ==
  /\ wire.step = "packed"
  /\ wire' = [wire EXCEPT !.step = "unpacked", !.d = decode(wire.stream).e,
                          !.left = decode(wire.stream).left]
  /\ UNCHANGED <<pholdVars, btCall, echo, sendStep>>

NextWire ==
  \/ \E e \in Events : serializeEvent(e)
  \/ deserializeEvent

\* no event yet
InitWire == InitBT

SpecWire == InitWire /\ [][NextWire]_vars

(***************************************************************************)
(* Phold::ShowConfiguration (Phold.cc:298-371), called by LP 0 from the    *)
(* constructor.  duty_factor = m_average / (minimum + m_average) is kept   *)
(* as the fraction it is; times are in units of TIMEBASE.                  *)
(***************************************************************************)
\* const double min_ev_per_win = 10
min_ev_per_win == 10

\* ev_per_win < min_ev_per_win, with ev_per_win = m_events * duty_factor
TooLow(average, minimum, events) ==
  events * average < min_ev_per_win * (minimum + average)

\* unsigned long min_events = min_ev_per_win / duty_factor: the conversion
\* of the double to unsigned long drops the fraction
min_events(average, minimum) ==
  (min_ev_per_win * (minimum + average)) \div average

ShowConfiguration(average, minimum, events) ==
  /\ echo' = [shown |-> TRUE, average |-> average, minimum |-> minimum,
              events |-> events, warn |-> TooLow(average, minimum, events),
              min_events |-> min_events(average, minimum)]
  /\ UNCHANGED <<pholdVars, btCall, wire, sendStep>>

InitEcho == InitBT

NextEcho ==
  \E average \in 1 .. MaxAverage, minimum \in 1 .. MaxEchoMin,
     events \in 1 .. MaxEchoEvents :
       ShowConfiguration(average, minimum, events)

SpecEcho == InitEcho /\ [][NextEcho]_vars

(***************************************************************************)
(* Properties of the run.                                                  *)
(***************************************************************************)
\* the events sent and not yet delivered: pending in a queue or in a channel
QueuedEvents == UNION {queue[p] : p \in Parts}
ChanEvents ==
  UNION {{chan[pq][i] : i \in 1 .. Len(chan[pq])} : pq \in Parts \X Parts}

NumPending ==
  SumOver([p \in Parts |-> Cardinality(queue[p])], Parts)
  + SumOver([pq \in Parts \X Parts |-> Len(chan[pq])], Parts \X Parts)

\* C1: every event sent and not yet delivered carries the virtual time of
\* its creation as send time, and is scheduled to arrive at send time +
\* delay + minimum with delay >= 0, the arrival time the sender computed
\* (nextEventTime), on the self path and on the cross-LP path alike; so
\* arrival >= send time + minimum for every event a handler is given.
TimedRight(e) ==
  /\ e.arrival = e.net
  /\ e.arrival - e.sendTime - m_minimum \in 0 .. MaxDelay
  /\ e.arrival >= e.sendTime + m_minimum
  /\ e.sendTime <= lvt[PartOf(e.src)]
C1_ArrivalAfterSend ==
  /\ \A e \in QueuedEvents : TimedRight(e)
  /\ \A e \in ChanEvents : TimedRight(e)
\* both paths are taken by handlers running after time 0
C1_Witness ==
  /\ \E e \in QueuedEvents : e.local /\ e.sendTime > 0
  /\ \E e \in QueuedEvents \cup ChanEvents : ~e.local /\ e.sendTime > 0

\* C2: a handler called at now < stop adds exactly 1 to recv_count and
\* performs exactly one SendEvent (one link send); a handler called at
\* now >= stop, now = stop included, leaves recv_count and send_count as
\* they are, sends nothing and releases the LP's token.
HandlerEffect(id, now) ==
  IF now < m_stop
  THEN /\ m_recvCount'[id] = m_recvCount[id] + 1
       /\ nSendEvent'[id] = nSendEvent[id] + 1
       /\ nLinkSend'[id] = nLinkSend[id] + 1
       /\ NumPending' = NumPending
  ELSE /\ m_recvCount' = m_recvCount
       /\ m_sendCount' = m_sendCount
       /\ nSendEvent' = nSendEvent
       /\ nLinkSend' = nLinkSend
       /\ NumPending' = NumPending - 1
       /\ ~doNotEnd'[id]
C2_HandlerEffect ==
  [][\A id \in LPs :
       nHandled'[id] # nHandled[id] =>
         /\ nHandled'[id] = nHandled[id] + 1
         /\ HandlerEffect(id, lastDisp'[PartOf(id)][1])]_vars
\* handlers have run before stop, exactly at stop and after it
C2_Witness ==
  /\ \E id \in LPs : m_recvCount[id] > 0
  /\ \E id \in LPs : nLate[id] > 0 /\ lastDisp[PartOf(id)][1] = m_stop
  /\ \E p \in Parts : lastDisp[p][1] > m_stop

\* C3: every SendEvent makes exactly one link send, so one new event, and
\* send_count (and the number of histogram samples) counts exactly the
\* events sent whose arrival time is strictly less than stop.
C3_SendCounted ==
  /\ \A id \in LPs :
       /\ nLinkSend[id] = nSendEvent[id]
       /\ m_sendCount[id] = nLive[id]
       /\ m_delays[id] = nLive[id]
  /\ NumPending = SumOver(nLinkSend, LPs) - SumOver(nHandled, LPs)
\* one LP has sent an event arriving before stop, one arriving at stop and
\* one arriving after it
C3_Witness ==
  /\ \E id \in LPs : nLive[id] > 0
  /\ \E e \in QueuedEvents : e.arrival = m_stop
  /\ \E e \in QueuedEvents : e.arrival > m_stop
  /\ \E id \in LPs : nLinkSend[id] > nLive[id] + 1

\* C4: the destination of every event is an LP id in [0, N); it differs
\* from the sender exactly when the coin chose remote; with remote = 0
\* every event is local and with remote = 1 every event crosses LPs.
DestRight(e) ==
  /\ e.dst \in LPs
  /\ e.local <=> (e.dst = e.src)
  /\ m_remote = 0 => e.dst = e.src
  /\ m_remote = RemScale => e.dst # e.src
C4_DestinationValid ==
  /\ \A e \in QueuedEvents : DestRight(e)
  /\ \A e \in ChanEvents : DestRight(e)
\* with three LPs and a mixed remote fraction both kinds are pending
C4_Witness ==
  /\ m_number = 3 /\ m_remote \notin {0, RemScale}
  /\ \E e \in QueuedEvents : e.dst = e.src
  /\ \E e \in QueuedEvents : e.dst # e.src /\ e.sendTime > 0

\* C5: every LP holds its token from construction; an LP's token is released
\* only once that LP's own handler has seen now >= stop; no partition leaves
\* the dispatch loop while an LP still holds its token.
C5_TokenHeldUntilLate ==
  /\ (\A p \in Parts : pstate[p] = "Init") => \A id \in LPs : doNotEnd[id]
  /\ \A id \in LPs : ~doNotEnd[id] => nLate[id] > 0
  /\ \A p \in Parts :
       pstate[p] \in {"Draining", "Terminated"} => \A id \in LPs : ~doNotEnd[id]
\* a partition has terminated while another LP released its token earlier
C5_Witness ==
  /\ \E p \in Parts : pstate[p] = "Terminated"
  /\ m_number = 3

\* C6: when every LP has released its token, no event with arrival < stop is
\* pending in a queue or in a channel, whatever the number of partitions.
C6_NoPrematureEnd ==
  (\A id \in LPs : ~doNotEnd[id]) =>
     /\ \A e \in QueuedEvents : e.arrival >= m_stop
     /\ \A e \in ChanEvents : e.arrival >= m_stop
\* all tokens released on two partitions at different virtual times, with
\* events left over
C6_Witness ==
  /\ \A id \in LPs : ~doNotEnd[id]
  /\ nparts = 2 /\ lvt[0] # lvt[1]
  /\ QueuedEvents # {}
  /\ \E id \in LPs : m_recvCount[id] > 0

\* C7: within a partition handlers are dispatched in nondecreasing arrival
\* order, and at equal arrival in increasing enqueue sequence.
C7_DispatchOrder ==
  [][\A p \in Parts :
       lastDisp'[p] # lastDisp[p] =>
         \/ lastDisp[p][1] < lastDisp'[p][1]
         \/ /\ lastDisp[p][1] = lastDisp'[p][1]
            /\ lastDisp[p][2] < lastDisp'[p][2]]_vars
\* two events of equal arrival time are pending on one partition after a
\* dispatch, one of them received from the other partition
C7_Witness ==
  \E p \in Parts :
    /\ lastDisp[p][2] >= 0
    /\ \E a, b \in queue[p] :
         a.seq < b.seq /\ a.arrival = b.arrival /\ PartOf(b.src) # p

\* C8: with minimum > 0 no event is enqueued into, or dispatched by, a
\* partition whose local virtual time is past the event's arrival time.
C8_NoCausalityViolation ==
  /\ ~causality
  /\ \A p \in Parts : \A e \in queue[p] : e.arrival >= lvt[p]
\* a partition that has advanced holds an event sent by the other partition
\* after that one advanced
C8_Witness ==
  /\ m_minimum > 0 /\ nparts = 2
  /\ \E p \in Parts :
       /\ lvt[p] > 0
       /\ \E e \in queue[p] : PartOf(e.src) # p /\ e.sendTime > 0

(***************************************************************************)
(* Properties of the collectives.                                          *)
(***************************************************************************)
\* C9: in the init broadcast every LP other than 0 takes exactly one Init
\* event from its links, in phase depth(id), on the link of parent(id), sent
\* in phase depth(id) - 1 and carrying the sender id parent(id); LP 0 takes
\* none and sends in phase 0; every LP sends in its own phase only, and only
\* to its children of index < N; no handler reads a missing event.
GotRight(id, g) ==
  /\ id # 0
  /\ g.phase = depth(id)
  /\ g.from = parent(id)
  /\ g.senderId = parent(id)
  /\ g.sentIn = depth(id) - 1
SentRight(id, s) ==
  /\ s.phase = depth(id)
  /\ s.to \in {2 * id + 1, 2 * id + 2}
  /\ s.to < m_number
C9_InitBroadcast ==
  /\ ~ub
  /\ \A id \in LPs :
       /\ Len(initGot[id]) <= 1
       /\ \A k \in 1 .. Len(initGot[id]) : GotRight(id, initGot[id][k])
       /\ \A s \in initSent[id] : SentRight(id, s)
  /\ stage # "init" =>
       /\ \A id \in LPs : Len(initGot[id]) = (IF id = 0 THEN 0 ELSE 1)
       /\ \A id \in LPs :
            {s.to : s \in initSent[id]} =
              {c \in {2 * id + 1, 2 * id + 2} : c < m_number}
       /\ \A l \in LPs \X LPs :
            \A k \in 1 .. Len(untimed[l]) : untimed[l][k].kind # "Init"
\* the broadcast is over on an unbalanced tree of three levels: LP 2 has one
\* child, LP 5
C9_Witness ==
  /\ stage = "run"
  /\ m_number = 6
  /\ Len(initGot[5]) = 1 /\ initGot[5][1].phase = 2
  /\ initSent[2] = {[phase |-> 1, to |-> 5]}

\* C10: LP 0 prints the grand totals once, in the last phase of the reduce
\* (phase depth(N - 1)), and they are the sums over all LPs of send_count and
\* of recv_count, on balanced and unbalanced trees alike.
C10_GrandTotals ==
  /\ ~ub
  /\ Len(totals) <= 1
  /\ \A k \in 1 .. Len(totals) :
       /\ stage \in {"complete", "finish"}
       /\ totals[k].phase = depth(m_number - 1)
       /\ totals[k].sendCount = SumOver(m_sendCount, LPs)
       /\ totals[k].recvCount = SumOver(m_recvCount, LPs)
  /\ stage = "finish" =>
       /\ Len(totals) = 1
       /\ \A l \in LPs \X LPs : untimed[l] = <<>>
\* the reduce is over on an unbalanced tree of three levels, with counts held
\* by a leaf of the last level and by its parent, which has no right child
C10_Witness ==
  /\ stage = "finish"
  /\ m_number = 6
  /\ m_sendCount[5] > 0 /\ m_recvCount[2] > 0
  /\ Len(totals) = 1 /\ totals[1].sendCount > 0 /\ totals[1].recvCount > 0

\* C11: under a host that repeats the phases while an event was sent in the
\* phase before, the init broadcast and the complete reduce each run the
\* phases 0 .. depth(N - 1) and no more: when all LPs have been called in a
\* phase, an event was sent in it exactly if it is not phase depth(N - 1).
C11_PhaseCount ==
  stage \in {"init", "complete"} =>
     /\ phase <= depth(m_number - 1)
     /\ called = LPs => (nSent = 0 <=> phase = depth(m_number - 1))
\* the reduce has ended its third and last phase on a tree of four LPs, the
\* broadcast having ended before
C11_Witness ==
  /\ stage = "complete" /\ called = LPs
  /\ m_number = 4 /\ phase = 2 /\ nSent = 0
  /\ Len(initGot[3]) = 1

\* the run has ended: every partition has terminated
RunOver == \A p \in Parts : pstate[p] = "Terminated"

\* C12 as stated: at the end of a run with events = 1 every LP has
\* recv_count - 1 <= send_count <= recv_count + 1.
C12_Original ==
  (RunOver /\ m_events = 1) =>
     \A id \in LPs :
       /\ m_recvCount[id] - 1 <= m_sendCount[id]
       /\ m_sendCount[id] <= m_recvCount[id] + 1
\* C12, amended: at the end of a run with events = 1 every LP has
\* recv_count - (N - 1) <= send_count <= recv_count + 1: an LP counts at most
\* one send more than its receives (its initial event), and each of the N
\* events in flight can end at it with a receive whose answer arrives at or
\* after stop, all but its own initial event uncounted by a send of its own.
C12_CountsOffByN ==
  (RunOver /\ m_events = 1) =>
     \A id \in LPs :
       /\ m_recvCount[id] - (m_number - 1) <= m_sendCount[id]
       /\ m_sendCount[id] <= m_recvCount[id] + 1
\* the run of three LPs has ended with one LP two receives ahead of its sends
\* and another one send ahead of its receives
C12_Witness ==
  /\ RunOver /\ m_events = 1 /\ m_number = 3
  /\ \E id \in LPs : m_sendCount[id] = m_recvCount[id] - 2
  /\ \E id \in LPs : m_sendCount[id] = m_recvCount[id] + 1

\* the grand totals of the reduce: the sums of the counters over all LPs
GrandSend == SumOver(m_sendCount, LPs)
GrandRecv == SumOver(m_recvCount, LPs)

\* C13: at the end of a run on P partitions the grand totals differ by at
\* most P, and no event has met a partition past its arrival time.
C13_ResidueBounded ==
  RunOver =>
     /\ GrandSend - GrandRecv <= nparts
     /\ GrandRecv - GrandSend <= nparts
     /\ ~causality
\* a run on two partitions has ended at different virtual times, with events
\* received before stop and events left over
C13_Witness ==
  /\ RunOver /\ nparts = 2 /\ lvt[0] # lvt[1]
  /\ GrandRecv >= 3
  /\ QueuedEvents # {}

(***************************************************************************)
(* The reference run: the same configuration and generators on one queue,  *)
(* events of equal arrival time handled in the order they were sent.       *)
(***************************************************************************)
RefSend(st, id, now) ==
  LET r == RngInput(id, st.rng[RngOf(id)])
      local == ~IsRemote(r.in.rem)
      nextId == NextId(id, r.in.rem, r.in.draws)
      arrival == now + LinkLatency(id, nextId) + SendDelay(local, r.in.delay)
      nextEventTime == r.in.delay + m_minimum + now
  IN  [st EXCEPT !.rng[RngOf(id)] = r.s,
                 !.q = @ \cup {[dst |-> nextId, arrival |-> arrival,
                                seq |-> st.n]},
                 !.n = @ + 1,
                 !.send[id] = IF RecordSend(nextEventTime) THEN @ + 1 ELSE @]

RECURSIVE RefSetup(_, _, _)
RefSetup(st, id, i) ==
  IF id >= m_number THEN st
  ELSE IF i >= m_events THEN RefSetup(st, id + 1, 0)
  ELSE RefSetup(RefSend(st, id, 0), id, i + 1)

RECURSIVE RefLoop(_)
RefLoop(st) ==
  LET live == {e \in st.q : BeforeStop(e.arrival)}
  IN  IF live = {} THEN st
      ELSE LET e == CHOOSE x \in live : \A y \in live : y = x \/ Before(x, y)
               st1 == [st EXCEPT !.q = @ \ {e}, !.recv[e.dst] = @ + 1]
           IN  RefLoop(RefSend(st1, e.dst, e.arrival))

RefRun ==
  RefLoop(RefSetup([q |-> {}, n |-> 0,
                    rng |-> [id \in LPs |-> Seed(id)],
                    send |-> [id \in LPs |-> 0],
                    recv |-> [id \in LPs |-> 0]], 0, 0))

\* C14: with the same configuration, LP count and generators, every run ends
\* with the per-LP send and receive counts (and so the grand totals) of the
\* reference run, whatever the number of partitions, their interleaving and
\* the order given to events of equal arrival time.
C14_ReplayDeterministic ==
  RunOver => /\ m_sendCount = RefRun.send
             /\ m_recvCount = RefRun.recv
\* on two partitions one LP has two events of equal arrival time before stop
\* pending, the one from the LP of higher id enqueued first
C14_Witness ==
  /\ nparts = 2
  /\ \E p \in Parts : \E a, b \in queue[p] :
       /\ a.dst = b.dst /\ a.arrival = b.arrival /\ a.arrival < m_stop
       /\ a.seq < b.seq /\ a.src > b.src /\ a.sendTime > 0

(***************************************************************************)
(* The initial event set (Phold.cc:759-790).                               *)
(***************************************************************************)
\* C15: once setup() of an LP has returned, the LP has emitted at least
\* m_events initial events and at least one of its events arrives strictly
\* before m_stop.
C15_SetupLive ==
  \A id \in LPs :
    (setupDone[id] /\ nHandled[id] = 0) =>
       /\ nSendEvent[id] >= m_events
       /\ nLive[id] >= 1

\* C16: when no initial event can arrive before m_stop (m_stop <= m_minimum),
\* setup() does not return normally leaving its LP without a live event: a
\* setup() that has returned has produced one.
C16_NoSilentEmptySetup ==
  \A id \in LPs :
    (m_stop <= m_minimum /\ setupDone[id]) => nLive[id] >= 1

(***************************************************************************)
(* Parameter ranges (Phold.h:133-167).                                     *)
(***************************************************************************)
\* the documented ranges: number > 1, minimum > 0, stop > 0, events > 0 and
\* remote a fraction
ConfigValid ==
  /\ m_number >= 2
  /\ m_minimum > 0
  /\ m_stop > 0
  /\ m_events >= 1
  /\ m_remote \in 0 .. RemScale

\* C17: a configuration outside the documented ranges is rejected at
\* construction: no LP of such a run gets its setup() called, no event is
\* ever put on a link and no partition starts running.
C17_InvalidRejected ==
  ConfigValid \/
    /\ \A id \in LPs : ~setupDone[id] /\ nLinkSend[id] = 0
    /\ \A p \in Parts : pstate[p] = "Init"

(***************************************************************************)
(* BinaryTree on its own (binary-tree.h:46-128).                           *)
(***************************************************************************)
\* C18: for every depth d in 0 .. max_depth, capacity(d) reads inside the
\* memo table and returns 2^(d+1) - 1, a value of the index type.
C18_CapacityAllDepths ==
  (btCall.fn = "capacity" /\ btCall.arg \in 0 .. max_depth) =>
     /\ ~btCall.oob
     /\ btCall.res = 2 ^ (btCall.arg + 1) - 1
     /\ btCall.res \in Index

\* C19: for every index i of the index type, depth(i) returns, reading only
\* inside the memo table, the smallest d with i < capacity(d).
C19_DepthAllIndices ==
  (btCall.fn = "depth" /\ btCall.arg \in Index) =>
     /\ ~btCall.oob
     /\ btCall.arg < capacity(btCall.res)
     /\ \A d \in 0 .. (btCall.res - 1) : capacity(d) <= btCall.arg

\* C20: for every index i > 0, parent(i) = (i - 1) / 2, and the pair
\* children(p) = (2p + 1, 2p + 2), in the arithmetic of the index type, holds
\* every i whose parent is p: first when i is odd, second when i is even.
C20_ParentChildren ==
  /\ (btCall.fn = "parent" /\ btCall.arg > 0) =>
        btCall.res = (btCall.arg - 1) \div 2
  /\ btCall.fn = "children" =>
        /\ btCall.res = <<(2 * btCall.arg + 1) % IndexMod,
                          (2 * btCall.arg + 2) % IndexMod>>
        /\ \A i \in Index \ {0} :
             parent(i) = btCall.arg =>
                btCall.res[IF i % 2 = 1 THEN 1 ELSE 2] = i

\* children(parent(i)) was called for the largest index, whose sibling wraps
C20_Witness ==
  /\ btCall.fn = "children"
  /\ btCall.arg = parent(IndexMod - 1)
  /\ btCall.res = <<IndexMod - 1, 0>>

\* C21: begin(0) = 0; for every depth d > 0, begin(d) = capacity(d - 1) =
\* end(d - 1); for every depth d, end(d) = capacity(d) and begin(d) < end(d)
\* (the levels are non-empty, adjacent and in order); and for every N >= 1,
\* with maxDepth = depth(N - 1), begin(maxDepth) <= N - 1 and
\* end(maxDepth) >= N.  All of it reading only inside the memo table.
C21_LevelBoundaries ==
  /\ (btCall.fn = "begin" /\ btCall.arg \in 0 .. max_depth) =>
        /\ ~btCall.oob
        /\ btCall.arg = 0 => btCall.res = 0
        /\ btCall.arg > 0 =>
              /\ ~endOob(btCall.arg - 1)
              /\ btCall.res = capacity(btCall.arg - 1)
              /\ btCall.res = end(btCall.arg - 1)
  /\ (btCall.fn = "end" /\ btCall.arg \in 0 .. max_depth) =>
        /\ ~btCall.oob
        /\ btCall.res = capacity(btCall.arg)
        /\ begin(btCall.arg) < btCall.res
  /\ (btCall.fn = "depth" /\ btCall.arg + 1 \in Index) =>
        /\ ~btCall.oob
        /\ ~beginOob(btCall.res) /\ ~endOob(btCall.res)
        /\ begin(btCall.res) <= btCall.arg
        /\ end(btCall.res) >= btCall.arg + 1

(***************************************************************************)
(* Serialization (PholdEvent.h:88-96, 151-157, 213-220).                   *)
(***************************************************************************)
\* C22: an event unpacked from the stream it was packed into equals the event
\* packed, for a PholdEvent (send time and payload of every length, 0
\* included), an InitEvent and a CompleteEvent, and the whole stream is read.
C22_RoundTrip ==
  wire.step = "unpacked" => wire.d = wire.e /\ wire.left = 0

\* a PholdEvent with a send time and a full payload went through
C22_Witness ==
  /\ wire.step = "unpacked"
  /\ wire.e.cls = "PholdEvent"
  /\ wire.e.m_sendTime = MaxStop
  /\ wire.e.m_bytes = MaxBytes
  /\ wire.e.m_buffer[1] # wire.e.m_buffer[MaxBytes]
  /\ wire.stream = <<"PholdEvent", wire.e.base, MaxStop, MaxBytes>>
                     \o wire.e.m_buffer

(***************************************************************************)
(* The configuration echo (Phold.cc:312-333, 356-362).                     *)
(***************************************************************************)
\* C23: with duty_factor = average / (minimum + average), the warning is
\* printed exactly when events * duty_factor < 10, and the value it suggests
\* is the smallest integer n with n * duty_factor >= 10.
C23_EchoSuggestion ==
  echo.shown =>
     /\ echo.warn <=>
          echo.events * echo.average < 10 * (echo.minimum + echo.average)
     /\ echo.warn =>
          /\ echo.min_events * echo.average
               >= 10 * (echo.minimum + echo.average)
          /\ (echo.min_events - 1) * echo.average
               < 10 * (echo.minimum + echo.average)

(***************************************************************************)
(* The checks of the collectives (Phold.cc:646-664, 699-754, 848-896).     *)
(***************************************************************************)
\* the untimed events on the links, each with its link
UntimedOnLinks ==
  UNION {{[from |-> l[1], to |-> l[2], ev |-> untimed[l][k]] :
            k \in 1 .. Len(untimed[l])} : l \in LPs \X LPs}

\* C24: in every phase of init and of complete, for every N, the EARLY, OTHER
\* and LATE checks find no event on any link; an event sent in phase p is
\* still on its link until its addressee is called in phase p + 1 and is gone
\* when that phase is over; when a collective is over no untimed event is left.
C24_NoUnexpectedEvent ==
  /\ nUnexpected = 0
  /\ \A m \in UntimedOnLinks :
       /\ stage \in {"init", "complete"}
       /\ m.ev.due \in {phase, phase + 1}
       /\ m.ev.due = phase => m.to \notin called
  /\ stage \in {"run", "finish"} => UntimedOnLinks = {}

\* in the reduce of 6 LPs a leaf has made its LATE check while the Complete
\* event of a leaf is waiting for an inner LP not yet called in this phase
C24_Witness ==
  /\ stage = "complete"
  /\ m_number = 6
  /\ phase = 1
  /\ \E id \in called : depth(id) = 2
  /\ \E m \in UntimedOnLinks :
       m.ev.kind = "Complete" /\ m.ev.due = phase /\ depth(m.to) = 1

(***************************************************************************)
(* The reduce (Phold.cc:793-829, 855-886).                                 *)
(***************************************************************************)
\* the LPs of the subtree of i: i and the subtrees of its children below N
RECURSIVE Subtree(_)
Subtree(i) ==
  {i} \cup UNION {Subtree(c) : c \in {children(i)[1], children(i)[2]} \cap LPs}

\* the phase of complete() in which LP id takes its turn
TurnOf(id) == depth(m_number - 1) - depth(id)

\* complete() of LP id has had its turn
HadTurn(id) ==
  \/ stage = "finish"
  \/ stage = "complete" /\ phase > TurnOf(id)
  \/ stage = "complete" /\ phase = TurnOf(id) /\ id \in called

\* C25: in the reduce the root sends nothing; every other LP sends exactly one
\* Complete event in all, in phase maxDepth - depth(id), to parent(id),
\* carrying the sums of send_count and of recv_count over the LPs of its
\* subtree (children with an index >= N count for nothing and are not waited
\* for: no NULL event is read).
C25_SubtreeSums ==
  /\ ~ub
  /\ completeSent[0] = <<>>
  /\ \A id \in LPs \ {0} :
       /\ Len(completeSent[id]) = IF HadTurn(id) THEN 1 ELSE 0
       /\ \A k \in 1 .. Len(completeSent[id]) :
            /\ completeSent[id][k].phase = TurnOf(id)
            /\ completeSent[id][k].to = parent(id)
            /\ completeSent[id][k].sendCount = SumOver(m_sendCount, Subtree(id))
            /\ completeSent[id][k].recvCount = SumOver(m_recvCount, Subtree(id))

\* 6 LPs: LP 2 has the child 5 and no second child (6 >= N); it has sent its
\* own receive and the send of LP 5
C25_Witness ==
  /\ stage = "finish"
  /\ m_number = 6
  /\ m_sendCount[5] = 1
  /\ m_recvCount[2] = 1
  /\ completeSent[2] = <<[phase |-> 1, to |-> 0, sendCount |-> 1,
                          recvCount |-> 1]>>

(***************************************************************************)
(* SendEvent draw by draw (Phold.cc:479-516): the three distributions of   *)
(* an LP sit on its one generator m_rng, so each draw steps rngState of    *)
(* that LP.  The generator gen is any function of its states: the draws    *)
(* can be any values.  log is the history of the draws of this call; it    *)
(* records the first MaxReps destination draws, reps counts them, and odd  *)
(* is the lowest bit of the counter reps of the code.                      *)
(***************************************************************************)
\* the draw of LP id: its generator steps, the new state is the raw value
NextRaw(id) == gen[rngState[RngOf(id)]]

Logged(kind, raw) == Append(sendStep.log, [kind |-> kind, raw |-> raw])

\* SST::ComponentId_t nextId = getId();  (Phold.cc:480)
SendEventEnter(id) ==
  /\ sendStep.pc \in {"idle", "done"}
  /\ sendStep' = [NoStep EXCEPT !.pc = "rem", !.id = id, !.nextId = id,
                                !.from = rngState[RngOf(id)]]
  /\ UNCHANGED <<pholdVars, btCall, wire, echo>>

\* mutant: a destination is drawn for a local send too
AfterRemAlways(rem) == "loop"

\* if (rem < m_remote) { do ... } else { local = true; }  (Phold.cc:490-510)
AfterRem(rem) == IF IsRemote(rem) THEN "loop" ELSE "delay"

\* const auto rem = m_remRng->nextUniform();  (Phold.cc:483)
DrawRem ==
  /\ sendStep.pc = "rem"
  /\ LET id == sendStep.id
         raw == NextRaw(id)
     IN  /\ rngState' = [rngState EXCEPT ![RngOf(id)] = raw]
         /\ sendStep' = [sendStep EXCEPT !.rem = RemOf(raw),
                                         !.local = ~IsRemote(RemOf(raw)),
                                         !.pc = AfterRem(RemOf(raw)),
                                         !.log = Logged("rem", raw)]
  /\ UNCHANGED <<cfgVars, m_sendCount, m_recvCount, m_delays, doNotEnd,
                 setupDone, queue, chan, nextSeq, lvt, pub, pstate,
                 nSendEvent, nLinkSend, heap, nLive, nHandled, nLate, lastDisp,
                 causality, treeVars, gen, btCall, wire, echo>>

\* do { nextId = m_nodeRng->getNextDouble(); ++reps; }
\* while (nextId == getId());  one turn of the loop (Phold.cc:492-501)
DrawNode ==
  /\ sendStep.pc = "loop"
  /\ LET id == sendStep.id
         raw == NextRaw(id)
         more == sendStep.reps < MaxReps
     IN  /\ rngState' = [rngState EXCEPT ![RngOf(id)] = raw]
         /\ sendStep' = [sendStep EXCEPT
              !.nextId = NodeOf(raw),
              !.reps = IF more THEN @ + 1 ELSE @,
              !.odd = ~@,
              !.pc = IF NodeOf(raw) = id THEN "loop" ELSE "delay",
              !.log = IF more THEN Logged("node", raw) ELSE @]
  /\ UNCHANGED <<cfgVars, m_sendCount, m_recvCount, m_delays, doNotEnd,
                 setupDone, queue, chan, nextSeq, lvt, pub, pstate,
                 nSendEvent, nLinkSend, heap, nLive, nHandled, nLate, lastDisp,
                 causality, treeVars, gen, btCall, wire, echo>>

\* auto delay = m_delayRng->getNextDouble();  (Phold.cc:515)
DrawDelay ==
  /\ sendStep.pc = "delay"
  /\ LET id == sendStep.id
         raw == NextRaw(id)
     IN  /\ rngState' = [rngState EXCEPT ![RngOf(id)] = raw]
         /\ sendStep' = [sendStep EXCEPT !.delay = DelayOf(raw),
                                         !.pc = "done",
                                         !.log = Logged("delay", raw)]
  /\ UNCHANGED <<cfgVars, m_sendCount, m_recvCount, m_delays, doNotEnd,
                 setupDone, queue, chan, nextSeq, lvt, pub, pstate,
                 nSendEvent, nLinkSend, heap, nLive, nHandled, nLate, lastDisp,
                 causality, treeVars, gen, btCall, wire, echo>>

\* the statements of a SendEvent under way
DrawStep == DrawRem \/ DrawNode \/ DrawDelay

\* any generator, every LP seeded with 1 + getId()
InitDraw ==
  /\ m_number \in 2 .. MaxN
  /\ m_remote \in 0 .. RemScale
  /\ m_minimum = 1
  /\ m_stop = 1
  /\ m_events = 1
  /\ nparts = 1
  /\ m_sendCount = [id \in LPs |-> 0]
  /\ m_recvCount = [id \in LPs |-> 0]
  /\ m_delays = [id \in LPs |-> 0]
  /\ doNotEnd = [id \in LPs |-> TRUE]
  /\ setupDone = [id \in LPs |-> FALSE]
  /\ queue = [p \in Parts |-> {}]
  /\ chan = [pq \in Parts \X Parts |-> <<>>]
  /\ nextSeq = [p \in Parts |-> 0]
  /\ lvt = [p \in Parts |-> 0]
  /\ pub = [p \in Parts |-> 0]
  /\ pstate = [p \in Parts |-> "Init"]
  /\ nSendEvent = [id \in LPs |-> 0]
  /\ nLinkSend = [id \in LPs |-> 0]
  /\ heap = NoHeap
  /\ nHandled = [id \in LPs |-> 0]
  /\ nLate = [id \in LPs |-> 0]
  /\ nLive = [id \in LPs |-> 0]
  /\ lastDisp = [p \in Parts |-> <<0, -1>>]
  /\ causality = FALSE
  /\ stage = "run"
  /\ phase = 0
  /\ called = {}
  /\ untimed = [l \in LPs \X LPs |-> <<>>]
  /\ nSent = 0
  /\ ub = FALSE
  /\ initGot = [id \in LPs |-> <<>>]
  /\ initSent = [id \in LPs |-> {}]
  /\ totals = <<>>
  /\ nUnexpected = 0
  /\ completeSent = [id \in LPs |-> <<>>]
  /\ ourPhase = [id \in LPs |-> [init |-> 0, complete |-> 0]]
  /\ gen \in [0 .. (RngMod - 1) -> 0 .. (RngMod - 1)]
  /\ rngState = [id \in LPs |-> Seed(id)]
  /\ btCall = NoCall
  /\ SideInit

NextDraw ==
  \/ \E id \in LPs : SendEventEnter(id)
  \/ DrawRem
  \/ DrawNode
  \/ DrawDelay

SpecDraw == InitDraw /\ [][NextDraw]_vars

\* a thread inside SendEvent keeps executing
SpecDrawFair == SpecDraw /\ WF_vars(DrawStep)

\* the kinds of the draws of a SendEvent with k destination draws
DrawKinds(k) == <<"rem">> \o [i \in 1 .. k |-> "node"] \o <<"delay">>

\* C26: a finished SendEvent has taken from the LP's one stream, in this
\* order: one remote-or-not draw, then, only when remote, one or more
\* destination draws, each but the last the sender's id and the last another
\* id, then exactly one delay draw; a local send takes no destination draw.
\* (For sends of fewer than MaxReps destination draws, which log holds whole.)
\* The values are those SendEvent of the run uses (RngInput).
C26_DrawOrder ==
  (sendStep.pc = "done" /\ sendStep.reps < MaxReps) =>
    LET id == sendStep.id
        k == sendStep.reps
        log == sendStep.log
    IN  /\ [i \in 1 .. Len(log) |-> log[i].kind] = DrawKinds(k)
        /\ log[1].raw = gen[sendStep.from]
        /\ \A i \in 2 .. Len(log) : log[i].raw = gen[log[i - 1].raw]
        /\ rngState[RngOf(id)] = log[Len(log)].raw
        /\ (k = 0) <=> sendStep.local
        /\ sendStep.local <=> ~(RemOf(log[1].raw) < m_remote)
        /\ \A i \in 1 .. k :
             (NodeOf(log[1 + i].raw) = id) <=> (i < k)
        /\ k > 0 => sendStep.nextId = NodeOf(log[1 + k].raw)
        /\ k = 0 => sendStep.nextId = id
        /\ k <= MaxDraws =>
             /\ RngInput(id, sendStep.from).ok
             /\ RngInput(id, sendStep.from).s = rngState[RngOf(id)]
             /\ RngInput(id, sendStep.from).in =
                  [rem |-> sendStep.rem,
                   draws |-> [i \in 1 .. k |-> NodeOf(log[1 + i].raw)],
                   delay |-> sendStep.delay]

\* a remote send that drew its own id once before another id
C26_Witness ==
  /\ sendStep.pc = "done"
  /\ sendStep.reps = 2
  /\ ~sendStep.local
  /\ Len(sendStep.log) = 4

\* a local send
C26_WitnessLocal ==
  /\ sendStep.pc = "done"
  /\ sendStep.local
  /\ m_remote > 0
  /\ Len(sendStep.log) = 2

\* C27: the redraw loop ends, whatever the destination draws are
C27_RedrawLoopEnds == (sendStep.pc = "loop") ~> (sendStep.pc = "delay")

(***************************************************************************)
(* The run with fair workers: a worker that can take a step of its loop    *)
(* takes it, and setup() is called on every component.                     *)
(***************************************************************************)
PartIds == 0 .. (MaxParts - 1)
LPIds == 0 .. (MaxN - 1)

FairWorker(p) ==
  /\ WF_vars(p \in Parts /\ Start(p))
  /\ WF_vars(p \in Parts /\ Dispatch(p))
  /\ WF_vars(p \in Parts /\ Block(p))
  /\ WF_vars(p \in Parts /\ Barrier(p))
  /\ WF_vars(p \in Parts /\ Drain(p))
  /\ WF_vars(p \in Parts /\ Terminate(p))

\* the runs of Spec with at most MaxFairLoad events pending and at most
\* MaxFairWork handler calls before stop
InitFair ==
  /\ Init
  /\ m_number * m_events <= MaxFairLoad
  /\ m_number * m_events * m_stop <= MaxFairWork

SpecFair ==
  /\ InitFair
  /\ [][Next]_vars
  /\ \A id \in LPIds : WF_vars(id \in LPs /\ setup(id))
  /\ \A p \in PartIds : FairWorker(p)

\* the events of partition p that are pending with an arrival before stop
PendingBeforeStop(p) == {e \in queue[p] : e.arrival < m_stop}

HeadBeyondLbts(p) == queue[p] = {} \/ ~WithinLbts(p, QHead(p).arrival)

\* a step that changes the state of partition p follows a listed transition
ListedTransition(p) ==
  \/ /\ pstate[p] = "Init" /\ pstate'[p] = "Running"
     /\ \A id \in LPs : setupDone[id]
  \/ /\ pstate[p] = "Running" /\ pstate'[p] = "Blocked"
     /\ HeadBeyondLbts(p)
  \/ /\ pstate[p] = "Blocked" /\ pstate'[p] = "Running"
     /\ pub'[p] = lvt[p]
  \/ /\ pstate[p] = "Running" /\ pstate'[p] = "Draining"
     /\ AuthComplete
  \/ /\ pstate[p] = "Draining" /\ pstate'[p] = "Terminated"
     /\ \A e \in queue[p] : e.arrival >= m_stop

\* a handler has run in this step
HandlerRan(id) == nHandled'[id] # nHandled[id]

StateMachineStep ==
  /\ \A p \in Parts : pstate'[p] # pstate[p] => ListedTransition(p)
  /\ \A p \in Parts : pstate[p] = "Terminated" => pstate'[p] = "Terminated"
  /\ \A id \in LPs :
       HandlerRan(id) => pstate[PartOf(id)] \notin {"Init", "Terminated"}

AllTerminated == \A p \in PartIds : p \in Parts => pstate[p] = "Terminated"

PendingFor(d) ==
  Cardinality({e \in queue[PartOf(d)] : e.dst = d})
  + SumOver([p \in Parts |->
               Cardinality({i \in 1 .. Len(chan[<<p, PartOf(d)>>]) :
                              chan[<<p, PartOf(d)>>][i].dst = d})], Parts)

\* every pending event is held by the partition of its destination
HeldByDestination ==
  /\ \A p \in Parts : \A e \in queue[p] : PartOf(e.dst) = p
  /\ \A pq \in Parts \X Parts :
       \A i \in 1 .. Len(chan[pq]) : PartOf(chan[pq][i].dst) = pq[2]

RunOverAll == \A p \in Parts : pstate[p] = "Terminated"

\* the safety half of C30: no event is delivered twice, delivered to another
\* LP than the one chosen at send time, lost while pending, or alive after its
\* handler; the handler deletes it before it creates the successor
EventOwnership ==
  /\ HeldByDestination
  /\ \A d \in LPs : heap.sentTo[d] = nHandled[d] + PendingFor(d)
  /\ heap.alive = NumPending
  /\ heap.peak <= m_number * m_events

\* C30 as stated: every PHOLD event is delivered exactly once: at the end of
\* the run every event sent has been delivered, none is left undelivered
C30_Original ==
  /\ EventOwnership
  /\ RunOverAll => \A d \in LPs : heap.sentTo[d] = nHandled[d]

\* C30 amended: every PHOLD event is delivered at most once, to the handler
\* of the destination LP chosen at send time, and is destroyed by that handler
\* before the handler sends its successor; every event with an arrival before
\* stop has been delivered exactly once when the run is over; the events
\* still pending then (arrival >= stop) are never delivered and stay with
\* the queue that holds them
C30_DeliveredAtMostOnce ==
  /\ EventOwnership
  /\ RunOverAll => \A e \in QueuedEvents \cup ChanEvents : e.arrival >= m_stop

\* the run is over with an event left in a queue, after events were delivered
\* before stop
C30_Witness ==
  /\ RunOverAll
  /\ NumPending > 0
  /\ \E d \in LPs : m_recvCount[d] > 0 /\ heap.sentTo[d] > nHandled[d]

\* C31: in every run every LP eventually handles an event at now >= stop and
\* releases its token: the exit condition 'all LPs have released' is
\* eventually reached
C31_AllRelease == <>AuthComplete

\* the same on one partition, where no worker ever waits for a peer
C31_OnePartition == (nparts = 1) => <>AuthComplete

\* the events sent and not yet delivered whose arrival is before stop
NumPendingLive ==
  SumOver([p \in Parts |->
             Cardinality({e \in queue[p] : e.arrival < m_stop})], Parts)
  + SumOver([pq \in Parts \X Parts |->
               Cardinality({i \in 1 .. Len(chan[pq]) :
                              chan[pq][i].arrival < m_stop})], Parts \X Parts)

\* C32: in every reachable state the sum of send_count over the LPs minus the
\* sum of recv_count equals the number of undelivered events with arrival <
\* stop; so the difference is never negative, and is 0 once every such event
\* has been delivered.
C32_CounterBalance == GrandSend - GrandRecv = NumPendingLive

\* events were received before stop; of the undelivered events two arrive
\* before stop and one does not
C32_Witness ==
  /\ GrandRecv > 0
  /\ NumPendingLive = 2
  /\ NumPending > NumPendingLive
  /\ ChanEvents # {}

\* the events setup() has sent so far: m_events for every LP set up
Population == m_events * Cardinality({id \in LPs : setupDone[id]})

\* the handler calls at now >= stop so far
NumLate == SumOver(nLate, LPs)

\* each handler call takes one event; before stop it sends exactly one, at or
\* after stop it sends none
ConsumeOneEmitOne ==
  /\ NumPending = Population - NumLate
  /\ \A id \in LPs :
       nSendEvent[id] =
         (IF setupDone[id] THEN m_events ELSE 0) + nHandled[id] - nLate[id]

\* C33 as stated: the number of undelivered events is N x events minus the
\* number handled at now >= stop, and exactly N x events events are handled at
\* now >= stop in the whole run
C33_Original ==
  /\ ConsumeOneEmitOne
  /\ RunOver => NumLate = m_number * m_events

\* C33 amended: in every state the number of undelivered events is N x events
\* (of the LPs set up) minus the number handled at now >= stop; a handler
\* before stop takes one event and sends one, a handler at or after stop
\* takes one and sends none; so at most N x events events are handled at now
\* >= stop, and at least N (one per LP) when the run has ended: those left
\* when the last LP releases its token are never handled
C33_PopulationConserved ==
  /\ ConsumeOneEmitOne
  /\ NumLate <= m_number * m_events
  /\ RunOver => NumLate >= m_number

\* a run has ended with fewer than N x events late handler calls, after
\* handler calls before stop
C33_Witness ==
  /\ RunOver
  /\ GrandRecv > 0
  /\ NumLate < m_number * m_events
  /\ NumPending = m_number * m_events - NumLate

\* what a step may do at LP id once it has released its token
ReleasedFrame(id) ==
  /\ ~doNotEnd'[id]
  /\ m_sendCount'[id] = m_sendCount[id]
  /\ m_recvCount'[id] = m_recvCount[id]
  /\ nSendEvent'[id] = nSendEvent[id]
  /\ nLinkSend'[id] = nLinkSend[id]
  /\ nHandled'[id] # nHandled[id] =>
       /\ lastDisp'[PartOf(id)][1] >= m_stop
       /\ nLate'[id] = nLate[id] + 1

\* C34: once an LP has released its token every later handler call at that
\* LP observes now >= stop: from then on its send_count and recv_count never
\* change and it never sends another event.
C34_ReleasedIsQuiet ==
  [][\A id \in LPs : ~doNotEnd[id] => ReleasedFrame(id)]_vars

\* an LP has handled a second late event after its release, while another LP
\* was still receiving before stop
C34_Witness ==
  /\ \E id \in LPs : ~doNotEnd[id] /\ nLate[id] >= 2
  /\ \E id \in LPs : doNotEnd[id] /\ m_recvCount[id] > 0

\* the number of outstanding tokens
TokenCount == Cardinality({id \in LPs : doNotEnd[id]})

C36_GateTimesAgree ==
  \A e \in QueuedEvents \cup ChanEvents :
    /\ e.net = e.arrival
    /\ e.local <=> (e.src = e.dst)
    /\ RecordSend(e.net) <=> BeforeStop(e.arrival)

\* after a receive before stop: events pending on both paths, on both sides
\* of stop
C36_Witness ==
  /\ GrandRecv > 0
  /\ \E e \in QueuedEvents : e.local /\ e.arrival < m_stop
  /\ \E e \in QueuedEvents \cup ChanEvents :
       ~e.local /\ e.sendTime > 0 /\ e.arrival >= m_stop
  /\ \E e \in QueuedEvents \cup ChanEvents : ~e.local /\ e.arrival < m_stop

\* init() of LP id has had its turn
InitHadTurn(id) ==
  \/ stage # "init"
  \/ phase > depth(id)
  \/ phase = depth(id) /\ id \in called

\* C37: in complete(phase) the phase never exceeds maxDepth = depth(N - 1), so
\* the unsigned ephase = maxDepth - phase does not wrap around; every LP takes
\* the 'our phase' branch exactly once in the whole reduce, in the phase
\* maxDepth - depth(id), and exactly once in the whole init broadcast, in the
\* phase depth(id).
C37_OurPhaseOnce ==
  /\ stage \in {"init", "complete"} => depth(m_number - 1) - phase >= 0
  /\ \A id \in LPs :
       /\ ourPhase[id].init = IF InitHadTurn(id) THEN 1 ELSE 0
       /\ ourPhase[id].complete = IF HadTurn(id) THEN 1 ELSE 0

\* the reduce over six LPs is in its last phase, the root has taken its turn
C37_Witness ==
  /\ stage = "complete"
  /\ m_number = 6
  /\ phase = depth(m_number - 1)
  /\ called = LPs
  /\ \A id \in LPs : ourPhase[id] = [init |-> 1, complete |-> 1]

\* C38: for every index i > 0, depth(parent(i)) = depth(i) - 1, and for every
\* index i both children(i) have the depth depth(i) + 1, all depths read
\* inside the memo table.
C38_DepthConsistent ==
  /\ btCall.fn = "depth, depth of parent" =>
        /\ ~btCall.oob
        /\ btCall.res[2] = btCall.res[1] - 1
  /\ btCall.fn = "depth, depths of children" =>
        /\ ~btCall.oob
        /\ btCall.res[2] = btCall.res[1] + 1
        /\ btCall.res[3] = btCall.res[1] + 1

\* the same for the indices below the last level only: i < capacity(max_depth
\* - 1) for the parent, 2i + 2 < capacity(max_depth - 1) for the children
C38_BelowLastLevel ==
  /\ (btCall.fn = "depth, depth of parent"
        /\ btCall.arg < capacity(max_depth - 1)) =>
        /\ ~btCall.oob
        /\ btCall.res[2] = btCall.res[1] - 1
  /\ (btCall.fn = "depth, depths of children"
        /\ 2 * btCall.arg + 2 < capacity(max_depth - 1)) =>
        /\ ~btCall.oob
        /\ btCall.res[2] = btCall.res[1] + 1
        /\ btCall.res[3] = btCall.res[1] + 1
====
